---------------------------- MODULE Spec2Model ----------------------------
(***************************************************************************)
(* Model of statsmodels/stats/oneway.py: oneway ANOVA on summary           *)
(* statistics (standard, Welch, Brown-Forsythe), trimmed variants,         *)
(* effect sizes, the equivalence test and its power.                       *)
(*                                                                         *)
(* The module's functions are pure.  The state machine is a caller that    *)
(* invokes one function at a time with arguments drawn from small sets     *)
(* and observes either the returned object or the raised exception.        *)
(*                                                                         *)
(* Floating point numbers are modelled as exact rationals [n, d] in        *)
(* lowest terms with d > 0.                                                *)
(***************************************************************************)
EXTENDS Integers, Sequences, FiniteSets, TLC

VARIABLES pc, call, outcome, rng, seeded, prev

vars == <<pc, call, outcome, rng, seeded, prev>>

(***************************************************************************)
(* Exact rational arithmetic (the model of Python / numpy floats).         *)
(***************************************************************************)
Abs(i) == IF i < 0 THEN -i ELSE i

RECURSIVE GCD(_, _)
GCD(a, b) == IF b = 0 THEN a ELSE GCD(b, a % b)

Rat(num, den) ==
    LET s == IF den < 0 THEN -1 ELSE 1
        g == GCD(Abs(num), Abs(den))
    IN  [n |-> (s * num) \div g, d |-> (s * den) \div g]

R(i) == [n |-> i, d |-> 1]

RAdd(a, b) ==
    LET g == GCD(a.d, b.d)
    IN  Rat(a.n * (b.d \div g) + b.n * (a.d \div g), (a.d \div g) * b.d)
RNeg(a) == [n |-> -a.n, d |-> a.d]
RSub(a, b) == RAdd(a, RNeg(b))
RMul(a, b) ==
    LET g1 == GCD(Abs(a.n), b.d)
        g2 == GCD(Abs(b.n), a.d)
        h1 == IF g1 = 0 THEN 1 ELSE g1
        h2 == IF g2 = 0 THEN 1 ELSE g2
    IN  Rat((a.n \div h1) * (b.n \div h2), (a.d \div h2) * (b.d \div h1))
RInv(a) == Rat(a.d, a.n)
RDiv(a, b) == RMul(a, RInv(b))
RSq(a) == RMul(a, a)
RLt(a, b) == RSub(a, b).n < 0
RLe(a, b) == RSub(a, b).n <= 0
RIsZero(a) == a.n = 0

Zero == R(0)
One == R(1)

(***************************************************************************)
(* numpy array helpers on sequences of rationals.                          *)
(***************************************************************************)
RECURSIVE SumSeq(_)
SumSeq(s) == IF s = <<>> THEN Zero ELSE RAdd(Head(s), SumSeq(Tail(s)))

VMul(a, b)     == [i \in DOMAIN a |-> RMul(a[i], b[i])]
VDiv(a, b)     == [i \in DOMAIN a |-> RDiv(a[i], b[i])]
VScale(a, c)   == [i \in DOMAIN a |-> RMul(a[i], c)]
VDivS(a, c)    == [i \in DOMAIN a |-> RDiv(a[i], c)]
VSubS(a, c)    == [i \in DOMAIN a |-> RSub(a[i], c)]
VRSub(c, a)    == [i \in DOMAIN a |-> RSub(c, a[i])]
VSq(a)         == [i \in DOMAIN a |-> RSq(a[i])]
Dot(a, b)      == SumSeq(VMul(a, b))

(***************************************************************************)
(* numpy float arithmetic with the non-finite values: inf is [n |-> 1 or   *)
(* -1, d |-> 0] and nan is [n |-> 0, d |-> 0].  Division by zero gives inf *)
(* or nan (with a warning), never an exception.                            *)
(***************************************************************************)
NaN == [n |-> 0, d |-> 0]
Inf(sign) == [n |-> sign, d |-> 0]
IsNaN(a) == a.d = 0 /\ a.n = 0
IsInf(a) == a.d = 0 /\ a.n # 0
Finite(a) == a.d # 0
Sign(a) == IF a.n < 0 THEN -1 ELSE 1

NpAdd(a, b) ==
    IF IsNaN(a) \/ IsNaN(b) THEN NaN
    ELSE IF IsInf(a) /\ IsInf(b) THEN (IF a = b THEN a ELSE NaN)
    ELSE IF IsInf(a) THEN a
    ELSE IF IsInf(b) THEN b
    ELSE RAdd(a, b)

NpSub(a, b) == NpAdd(a, RNeg(b))

NpMul(a, b) ==
    IF IsNaN(a) \/ IsNaN(b) THEN NaN
    ELSE IF IsInf(a) \/ IsInf(b)
    THEN (IF RIsZero(a) \/ RIsZero(b) THEN NaN ELSE Inf(Sign(a) * Sign(b)))
    ELSE RMul(a, b)

NpDiv(a, b) ==
    IF IsNaN(a) \/ IsNaN(b) THEN NaN
    ELSE IF IsInf(b) THEN (IF IsInf(a) THEN NaN ELSE Zero)
    ELSE IF IsInf(a) THEN Inf(Sign(a) * Sign(b))
    ELSE IF RIsZero(b) THEN (IF RIsZero(a) THEN NaN ELSE Inf(Sign(a)))
    ELSE RDiv(a, b)

\* np.sqrt: exact at 0, inf and nan; otherwise the application term
NpSqrt(a) ==
    IF IsNaN(a) \/ a.n < 0 THEN NaN
    ELSE IF IsInf(a) \/ RIsZero(a) THEN a
    ELSE [fn |-> "sqrt", x |-> a]

(***************************************************************************)
(* scipy.stats.ncf.  The distribution library is an external numerical     *)
(* primitive.  The noncentral F distribution is represented by a rational  *)
(* stand-in family with the properties the callers rely on: cdf is a       *)
(* distribution function on x >= 0, strictly increasing in x, strictly     *)
(* decreasing in the noncentrality nc, depends on both degrees of          *)
(* freedom (through their integer parts, which keeps the numbers within    *)
(* the integer range of the model checker), and ppf is its exact inverse   *)
(* in x.                                                                   *)
(*    cdf(x; d1, d2, nc) = x / (x + c),  c = 1 + nc + [d1] + [d2]          *)
(***************************************************************************)
Floor(a) == a.n \div a.d

NcfScale(df1, df2, nc) == RAdd(RAdd(One, nc), R(Floor(df1) + Floor(df2)))

NcfCdf(x, df1, df2, nc) == RDiv(x, RAdd(x, NcfScale(df1, df2, nc)))

NcfPpf(q, df1, df2, nc) ==
    RDiv(RMul(q, NcfScale(df1, df2, nc)), RSub(One, q))

(***************************************************************************)
(* scipy.stats.f.sf is left uninterpreted: its value is the application    *)
(* term itself, so two p-values agree exactly when the survival function   *)
(* was evaluated at the same statistic and the same df pair.               *)
(***************************************************************************)
FSf(x, df1, df2) == [fn |-> "f.sf", x |-> x, df1 |-> df1, df2 |-> df2]

(***************************************************************************)
(* Outcome of a call: the returned object, or the exception raised.        *)
(* trace lists, in order, the external primitives the call invoked before  *)
(* it returned or raised.                                                  *)
(***************************************************************************)
Return(v, t) == [kind |-> "return", value |-> v, trace |-> t]
Raise(e, m, t) == [kind |-> "raise", exc |-> e, msg |-> m, trace |-> t]

UseVarMsg == "use_var is to be one of unequal, equal or bf"
NdimMsg == "data arrays have to be one-dimensional"
MarginMsg == "margin_type should be f2 or wellek"

(***************************************************************************)
(* anova_generic                                                           *)
(***************************************************************************)
\* lines 353-356: weights = nobs / vars_ for "unequal", else nobs
AnovaWeights(vars_, nobs, use_var) ==
    IF use_var = "unequal" THEN VDiv(nobs, vars_) ELSE nobs

\* lines 358-361: weighted grand mean
MeanW(weights, means) == Dot(VDivS(weights, SumSeq(weights)), means)

\* line 363: between sum of squares / (n_groups - 1)
StatisticBase(weights, means) ==
    RDiv(Dot(weights, VSq(VSubS(means, MeanW(weights, means)))),
         R(Len(means) - 1))

\* line 369: tmp of the Welch branch
WelchTmp(weights, nobs) ==
    LET n_groups == Len(nobs)
        w_rel == VDivS(weights, SumSeq(weights))
    IN  RDiv(SumSeq(VDiv(VSq(VRSub(One, w_rel)), VSubS(nobs, One))),
             R(n_groups * n_groups - 1))

\* the Welch correction multiplying the statistic instead of dividing it
AnovaUnequal_Times(means, vars_, nobs, welch_correction) ==
    LET n_groups == Len(means)
        weights == AnovaWeights(vars_, nobs, "unequal")
        tmp == WelchTmp(weights, nobs)
        stat0 == StatisticBase(weights, means)
        statistic == IF welch_correction
                     THEN RMul(stat0, RAdd(One, RMul(R(2 * (n_groups - 2)), tmp)))
                     ELSE stat0
    IN  [statistic |-> statistic,
         df_num |-> R(n_groups - 1),
         df_denom |-> RInv(RMul(R(3), tmp)),
         options |-> <<>>,
         trace |-> <<>>]

\* lines 367-372
AnovaUnequal(means, vars_, nobs, welch_correction) ==
    LET n_groups == Len(means)
        weights == AnovaWeights(vars_, nobs, "unequal")
        tmp == WelchTmp(weights, nobs)
        stat0 == StatisticBase(weights, means)
        statistic == IF welch_correction
                     THEN RDiv(stat0, RAdd(One, RMul(R(2 * (n_groups - 2)), tmp)))
                     ELSE stat0
    IN  [statistic |-> statistic,
         df_num |-> R(n_groups - 1),
         df_denom |-> RInv(RMul(R(3), tmp)),
         options |-> <<>>,
         trace |-> <<>>]

AnovaEqual_DfTotal(means, vars_, nobs) ==
    LET n_groups == Len(means)
        nobs_t == SumSeq(nobs)
        tmp == RDiv(SumSeq(VMul(VSubS(nobs, One), vars_)),
                    RSub(nobs_t, R(n_groups)))
    IN  [statistic |-> RDiv(StatisticBase(nobs, means), tmp),
         df_num |-> R(n_groups - 1),
         df_denom |-> RSub(nobs_t, One),
         options |-> <<>>,
         trace |-> <<>>]

\* lines 374-378
AnovaEqual(means, vars_, nobs) ==
    LET n_groups == Len(means)
        nobs_t == SumSeq(nobs)
        tmp == RDiv(SumSeq(VMul(VSubS(nobs, One), vars_)),
                    RSub(nobs_t, R(n_groups)))
    IN  [statistic |-> RDiv(StatisticBase(nobs, means), tmp),
         df_num |-> R(n_groups - 1),
         df_denom |-> RSub(nobs_t, R(n_groups)),
         options |-> <<>>,
         trace |-> <<>>]

\* lines 387-389 (and 174-176): Mehrotra-corrected numerator df
BfDfNum(vars_, nobs) ==
    LET nobs_t == SumSeq(nobs)
        p == VDivS(nobs, nobs_t)
        tmp == SumSeq(VMul(VRSub(One, p), vars_))
    IN  RDiv(RSq(tmp),
             RSub(RAdd(SumSeq(VSq(vars_)), RSq(SumSeq(VMul(p, vars_)))),
                  RMul(R(2), SumSeq(VMul(p, VSq(vars_))))))

\* lines 385-386
BfDfDenom(vars_, nobs) ==
    LET nobs_t == SumSeq(nobs)
        p == VDivS(nobs, nobs_t)
        tmp == SumSeq(VMul(VRSub(One, p), vars_))
    IN  RDiv(RSq(tmp),
             SumSeq(VDiv(VMul(VSq(VRSub(One, p)), VSq(vars_)),
                         VSubS(nobs, One))))

\* lines 380-382
BfStatistic(means, vars_, nobs) ==
    LET nobs_t == SumSeq(nobs)
        tmp == SumSeq(VMul(VRSub(One, VDivS(nobs, nobs_t)), vars_))
        meanw_t == MeanW(nobs, means)
    IN  RDiv(SumSeq(VMul(nobs, VSq(VSubS(means, meanw_t)))), tmp)

BfOptions_OwnPair(statistic, df_num, df_num2, df_denom) ==
    [df2 |-> <<df_num2, df_denom>>,
     df_num2 |-> df_num2,
     pvalue2 |-> FSf(statistic, df_num, df_denom)]

\* lines 390-393: the secondary df pair and its p-value
BfOptions(statistic, df_num, df_num2, df_denom) ==
    [df2 |-> <<df_num2, df_denom>>,
     df_num2 |-> df_num2,
     pvalue2 |-> FSf(statistic, df_num2, df_denom)]

\* lines 379-393
AnovaBf(means, vars_, nobs) ==
    LET statistic == BfStatistic(means, vars_, nobs)
        df_num2 == R(Len(means) - 1)
        df_denom == BfDfDenom(vars_, nobs)
        df_num == BfDfNum(vars_, nobs)
    IN  [statistic |-> statistic,
         df_num |-> df_num,
         df_denom |-> df_denom,
         options |-> BfOptions(statistic, df_num, df_num2, df_denom),
         trace |-> <<FSf(statistic, df_num2, df_denom)>>]

\* lines 347-350, 402-412: the HolderTuple returned
AnovaResult(b, nobs, n_groups, use_var, welch_correction) ==
    Return([statistic |-> b.statistic,
            pvalue |-> FSf(b.statistic, b.df_num, b.df_denom),
            df |-> <<b.df_num, b.df_denom>>,
            df_num |-> b.df_num,
            df_denom |-> b.df_denom,
            nobs_t |-> SumSeq(nobs),
            n_groups |-> n_groups,
            use_var |-> use_var,
            welch_correction |-> welch_correction] @@ b.options,
           b.trace \o <<FSf(b.statistic, b.df_num, b.df_denom)>>)

AnovaGeneric_ElseEqual(means, vars_, nobs, use_var, welch_correction) ==
    IF use_var = "unequal"
    THEN AnovaResult(AnovaUnequal(means, vars_, nobs, welch_correction),
                     nobs, Len(means), use_var, welch_correction)
    ELSE IF use_var = "bf"
    THEN AnovaResult(AnovaBf(means, vars_, nobs),
                     nobs, Len(means), use_var, welch_correction)
    ELSE AnovaResult(AnovaEqual(means, vars_, nobs),
                     nobs, Len(means), use_var, welch_correction)

\* lines 340-412
AnovaGeneric(means, vars_, nobs, use_var, welch_correction) ==
    IF use_var = "unequal"
    THEN AnovaResult(AnovaUnequal(means, vars_, nobs, welch_correction),
                     nobs, Len(means), use_var, welch_correction)
    ELSE IF use_var = "equal"
    THEN AnovaResult(AnovaEqual(means, vars_, nobs),
                     nobs, Len(means), use_var, welch_correction)
    ELSE IF use_var = "bf"
    THEN AnovaResult(AnovaBf(means, vars_, nobs),
                     nobs, Len(means), use_var, welch_correction)
    ELSE Raise("ValueError", UseVarMsg, <<>>)

(***************************************************************************)
(* effectsize_oneway                                                       *)
(* vars_ is either an array [tag |-> "array", v |-> <<...>>] or a scalar   *)
(* [tag |-> "scalar", v |-> r]; numpy broadcasts a scalar against nobs.    *)
(***************************************************************************)
Arr(s) == [tag |-> "array", v |-> s]
Scal(r) == [tag |-> "scalar", v |-> r]
\* a plain Python float (no numpy methods, division by zero raises)
PyScal(r) == [tag |-> "pyfloat", v |-> r]
Broadcast(x, k) == IF x.tag = "array" THEN x.v ELSE [i \in 1..k |-> x.v]

\* str.lower() on the spellings of UseVarVals
Lower(s) == CASE s = "BF" -> "bf"
              [] s = "Equal" -> "equal"
              [] OTHER -> s

\* lines 144-151: pooled residual variance replaces vars_ in "equal" mode
EffectsizeVars(vars_, nobs, use_var) ==
    IF use_var = "equal"
    THEN IF vars_.tag # "array"
         THEN vars_
         ELSE Scal(RDiv(SumSeq(VMul(VSubS(nobs, One), vars_.v)),
                        RSub(SumSeq(nobs), R(Len(nobs)))))
    ELSE vars_

\* lines 153-160: weighted between sum of squares / (nobs_t - ddof_between)
EffectsizeF2(means, vars1, nobs, ddof_between) ==
    LET weights == VDiv(nobs, Broadcast(vars1, Len(means)))
        meanw_t == MeanW(weights, means)
    IN  RDiv(Dot(weights, VSq(VSubS(means, meanw_t))),
             RSub(SumSeq(nobs), R(ddof_between)))

\* lines 174-176: df_num of the bf branch.  (vars_**2).sum() of a numpy
\* scalar is the scalar's square, where the other sums run over the groups.
EffectsizeBfDfNum(vars1, nobs) ==
    LET nobs_t == SumSeq(nobs)
        p == VDivS(nobs, nobs_t)
        v == Broadcast(vars1, Len(nobs))
        tmp == SumSeq(VMul(VRSub(One, p), v))
        sumsq == IF vars1.tag = "array" THEN SumSeq(VSq(v)) ELSE RSq(vars1.v)
    IN  NpDiv(RSq(tmp),
              RSub(RAdd(sumsq, RSq(SumSeq(VMul(p, v)))),
                   RMul(R(2), SumSeq(VMul(p, VSq(v))))))

EffectsizeBf_StatisticOverNobs(means, vars1, nobs) ==
    LET n_groups == Len(means)
        nobs_t == SumSeq(nobs)
        v == Broadcast(vars1, n_groups)
        statistic == BfStatistic(means, v, nobs)
        f2 == RDiv(statistic, nobs_t)
    IN  NpMul(f2, NpDiv(EffectsizeBfDfNum(vars1, nobs), R(n_groups - 1)))

\* lines 163-177: Brown-Forsythe effect size with the df_num correction
EffectsizeBf(means, vars1, nobs) ==
    LET n_groups == Len(means)
        nobs_t == SumSeq(nobs)
        v == Broadcast(vars1, n_groups)
        statistic == BfStatistic(means, v, nobs)
        f2 == RDiv(RMul(statistic, SumSeq(VRSub(One, VDivS(nobs, nobs_t)))),
                   nobs_t)
    IN  NpMul(f2, NpDiv(EffectsizeBfDfNum(vars1, nobs), R(n_groups - 1)))

SumMsg == "'float' object has no attribute 'sum'"

\* lines 136-179.  The bf branch overwrites the f2 of line 160, so
\* ddof_between is not used there; a Python float vars_ has no sum().
EffectsizeOneway(means, vars_, nobs, use_var, ddof_between) ==
    LET vars1 == EffectsizeVars(vars_, nobs, use_var)
    IN  IF Lower(use_var) = "bf"
        THEN IF vars1.tag = "pyfloat"
             THEN Raise("AttributeError", SumMsg, <<>>)
             ELSE Return(EffectsizeBf(means, vars1, nobs), <<>>)
        ELSE Return(EffectsizeF2(means, vars1, nobs, ddof_between), <<>>)

(***************************************************************************)
(* numpy sample statistics: x.mean(), x.var(ddof=1), np.sort               *)
(***************************************************************************)
SampleMean(x) == RDiv(SumSeq(x), R(Len(x)))

SampleVar(x) == RDiv(SumSeq(VSq(VSubS(x, SampleMean(x)))), R(Len(x) - 1))

RECURSIVE Insert(_, _)
Insert(a, s) == IF s = <<>> THEN <<a>>
                ELSE IF RLe(a, Head(s)) THEN <<a>> \o s
                ELSE <<Head(s)>> \o Insert(a, Tail(s))

RECURSIVE Sort(_)
Sort(s) == IF s = <<>> THEN <<>> ELSE Insert(Head(s), Sort(Tail(s)))

(***************************************************************************)
(* statsmodels.stats.robust_compare.TrimmedMean (not among the sources):   *)
(* modelled from the description of the summary extractor.                 *)
(***************************************************************************)
\* floor(fraction * n) observations are cut from each tail
LowerCut(x, fraction) == (fraction.n * Len(x)) \div fraction.d

NobsReduced(x, fraction) == Len(x) - 2 * LowerCut(x, fraction)

MeanTrimmed(x, fraction) ==
    LET c == LowerCut(x, fraction)
    IN  SampleMean(SubSeq(Sort(x), c + 1, Len(x) - c))

\* tail observations are clamped to the boundary values, then var(ddof=1)
VarWinsorized(x, fraction) ==
    LET c == LowerCut(x, fraction)
        xs == Sort(x)
        lo == xs[c + 1]
        hi == xs[Len(x) - c]
        w == [i \in DOMAIN x |-> IF RLt(x[i], lo) THEN lo
                                 ELSE IF RLt(hi, x[i]) THEN hi ELSE x[i]]
    IN  SampleVar(w)

TrimmedMean(x, fraction) ==
    [nobs |-> Len(x),
     nobs_reduced |-> NobsReduced(x, fraction),
     mean_trimmed |-> MeanTrimmed(x, fraction),
     var_winsorized |-> VarWinsorized(x, fraction)]

(***************************************************************************)
(* anova_oneway (groups=None).  A data item is [ndim, x]: the array's      *)
(* number of dimensions and its elements.                                  *)
(***************************************************************************)
\* lines 450, 456-457: raw counts, means and ddof=1 variances
SummaryPlain(args) ==
    [means |-> [i \in DOMAIN args |-> SampleMean(args[i].x)],
     vars_ |-> [i \in DOMAIN args |-> SampleVar(args[i].x)],
     nobs  |-> [i \in DOMAIN args |-> R(Len(args[i].x))],
     trace |-> <<[fn |-> "mean_var"]>>]

SummaryTrimmed_RawNobs(args, trim_frac) ==
    LET tms == [i \in DOMAIN args |-> TrimmedMean(args[i].x, trim_frac)]
    IN  [means |-> [i \in DOMAIN args |-> tms[i].mean_trimmed],
         vars_ |-> [i \in DOMAIN args |->
                      RDiv(RMul(tms[i].var_winsorized, R(tms[i].nobs - 1)),
                           R(tms[i].nobs_reduced - 1))],
         nobs  |-> [i \in DOMAIN args |-> R(tms[i].nobs)],
         trace |-> <<[fn |-> "TrimmedMean"]>>]

\* lines 459-466: trimmed means, rescaled winsorized variances, trimmed counts
SummaryTrimmed(args, trim_frac) ==
    LET tms == [i \in DOMAIN args |-> TrimmedMean(args[i].x, trim_frac)]
    IN  [means |-> [i \in DOMAIN args |-> tms[i].mean_trimmed],
         vars_ |-> [i \in DOMAIN args |->
                      RDiv(RMul(tms[i].var_winsorized, R(tms[i].nobs - 1)),
                           R(tms[i].nobs_reduced - 1))],
         nobs  |-> [i \in DOMAIN args |-> R(tms[i].nobs_reduced)],
         trace |-> <<[fn |-> "TrimmedMean"]>>]

\* lines 455-466
Summaries(args, trim_frac) ==
    IF RIsZero(trim_frac) THEN SummaryPlain(args)
    ELSE SummaryTrimmed(args, trim_frac)

\* prepend the primitives the caller invoked before the callee ran
WithTrace(t, o) == [o EXCEPT !.trace = t \o o.trace]

AnovaOneway_LateCheck(data, use_var, welch_correction, trim_frac) ==
    LET s == Summaries(data, trim_frac)
    IN  IF \E i \in DOMAIN data : data[i].ndim # 1
        THEN Raise("ValueError", NdimMsg, s.trace)
        ELSE WithTrace(s.trace,
                 AnovaGeneric(s.means, s.vars_, s.nobs, use_var,
                              welch_correction))

\* lines 446-471
AnovaOneway(data, use_var, welch_correction, trim_frac) ==
    IF \E i \in DOMAIN data : data[i].ndim # 1
    THEN Raise("ValueError", NdimMsg, <<>>)
    ELSE LET s == Summaries(data, trim_frac)
         IN  WithTrace(s.trace,
                 AnovaGeneric(s.means, s.vars_, s.nobs, use_var,
                              welch_correction))

(***************************************************************************)
(* Wellek effect size conversions                                          *)
(***************************************************************************)
\* exact square root of a rational that is a perfect square
ISqrt(m) == CHOOSE r \in 0..m : r * r = m
RSqrt(a) == [n |-> ISqrt(a.n), d |-> ISqrt(a.d)]

\* lines 252-255
WellekToF2(eps, n_groups) == RMul(RInv(R(n_groups)), RSq(eps))

\* lines 258-261
F2ToWellek(f2, n_groups) == RSqrt(RMul(R(n_groups), f2))

\* lines 264-267
FstatToWellek(f_stat, n_groups, nobs_mean) ==
    RDiv(RMul(f_stat, R(n_groups - 1)), nobs_mean)

(***************************************************************************)
(* equivalence_oneway_generic                                              *)
(***************************************************************************)
\* the value substituted for a zero noncentrality (1e-13 in the source,
\* scaled to the integer range of the model checker)
Eps == [n |-> 1, d |-> 1000]

F2Names == {"f2", "fsqu", "fsquared"}

None == <<>>
Some(v) == <<v>>

\* nobs.sum(): the sum of an array, a numpy scalar itself
NobsSum(nobs) == IF nobs.tag = "scalar" THEN nobs.v ELSE SumSeq(nobs.v)

NcfCall(f, nc) == [fn |-> f, nc |-> nc]

NcNull_MeanForF2(nobs_t, n_groups, equiv_margin, margin_type) ==
    IF margin_type = "wellek"
    THEN RMul(RDiv(nobs_t, R(n_groups)), RSq(equiv_margin))
    ELSE RMul(RDiv(nobs_t, R(n_groups)), equiv_margin)

\* lines 528-535: null noncentrality implied by the margin
NcNull(nobs_t, n_groups, equiv_margin, margin_type) ==
    IF margin_type = "wellek"
    THEN RMul(RDiv(nobs_t, R(n_groups)), RSq(equiv_margin))
    ELSE RMul(nobs_t, equiv_margin)

\* lines 530, 534, 542, 544: effect size on the scale of the margin type
EffectScale(f, nobs_t, n_groups, margin_type) ==
    IF margin_type = "wellek"
    THEN RDiv(RMul(f, R(n_groups - 1)), RDiv(nobs_t, R(n_groups)))
    ELSE RDiv(f, nobs_t)

TypeEffectsize(margin_type) ==
    IF margin_type = "wellek" THEN "Wellek's psi_squared"
    ELSE "Cohen's f_squared"

Reject_Le(es, crit_es) == RLe(es, crit_es)

\* line 546
Reject(es, crit_es) == RLt(es, crit_es)

\* lines 538-561: critical value, decision, p-value and the result object
EquivalenceResult(f_stat, n_groups, nobs, equiv_margin, df, alpha, margin_type) ==
    LET nobs_t == NobsSum(nobs)
        nc_null == NcNull(nobs_t, n_groups, equiv_margin, margin_type)
        es == EffectScale(f_stat, nobs_t, n_groups, margin_type)
        crit_f == NcfPpf(alpha, df[1], df[2], nc_null)
        crit_es == EffectScale(crit_f, nobs_t, n_groups, margin_type)
    IN  Return([statistic |-> f_stat,
                pvalue |-> NcfCdf(f_stat, df[1], df[2], nc_null),
                effectsize |-> es,
                crit_f |-> crit_f,
                crit_es |-> crit_es,
                reject |-> Reject(es, crit_es),
                power_zero |-> NcfCdf(crit_f, df[1], df[2], Eps),
                df |-> df,
                f_stat |-> f_stat,
                type_effectsize |-> TypeEffectsize(margin_type)],
               <<NcfCall("ncf.ppf", nc_null), NcfCall("ncf.cdf", nc_null),
                 NcfCall("ncf.cdf", Eps)>>)

EquivalenceOnewayGeneric_NoRaise(f_stat, n_groups, nobs, equiv_margin, df, alpha, margin_type) ==
    EquivalenceResult(f_stat, n_groups, nobs, equiv_margin, df, alpha,
                      margin_type)

\* lines 525-561
EquivalenceOnewayGeneric(f_stat, n_groups, nobs, equiv_margin, df, alpha, margin_type) ==
    IF margin_type \notin {"wellek"} \cup F2Names
    THEN Raise("ValueError", MarginMsg, <<>>)
    ELSE EquivalenceResult(f_stat, n_groups, nobs, equiv_margin, df, alpha,
                           margin_type)

(***************************************************************************)
(* equivalence_oneway (groups=None)                                        *)
(***************************************************************************)
\* the significance level equivalence_oneway passes on (line 575)
Alpha05 == [n |-> 1, d |-> 20]

\* equivalence_oneway drawing one variate from the process-wide stream
EquivalenceOneway_Draws(data, equiv_margin, use_var, welch_correction, trim_frac, margin_type) ==
    LET res0 == AnovaOneway(data, use_var, welch_correction, trim_frac)
    IN  IF res0.kind = "raise" THEN res0
        ELSE WithTrace(<<[fn |-> "randn", n |-> 1]>> \o res0.trace,
                 EquivalenceOnewayGeneric(res0.value.statistic,
                     res0.value.n_groups, Scal(res0.value.nobs_t),
                     equiv_margin, res0.value.df, Alpha05, margin_type))

\* lines 570-578
EquivalenceOneway(data, equiv_margin, use_var, welch_correction, trim_frac, margin_type) ==
    LET res0 == AnovaOneway(data, use_var, welch_correction, trim_frac)
    IN  IF res0.kind = "raise" THEN res0
        ELSE WithTrace(res0.trace,
                 EquivalenceOnewayGeneric(res0.value.statistic,
                     res0.value.n_groups, Scal(res0.value.nobs_t),
                     equiv_margin, res0.value.df, Alpha05, margin_type))

(***************************************************************************)
(* power_equivalence_oneway0: post-hoc power at the observed statistic     *)
(***************************************************************************)
\* power_equivalence_oneway0 passing the caller's alpha on
PowerEquivalenceOneway0_CallerAlpha(f, n_groups, nobs, eps, df, alpha) ==
    LET res == EquivalenceOnewayGeneric(f, n_groups, nobs, eps, df, alpha,
                                        "wellek")
        nobs_mean == RDiv(NobsSum(nobs), R(n_groups))
        esn == RDiv(RMul(f, R(n_groups - 1)), nobs_mean)
        nc == RMul(nobs_mean, esn)
    IN  Return(NcfCdf(res.value.crit_f, df[1], df[2], nc),
               res.trace \o <<NcfCall("ncf.cdf", nc)>>)

\* lines 591-604.  The alpha argument is not passed on (line 591 passes
\* 0.05), and the margin is always read as a Wellek margin.
PowerEquivalenceOneway0(f, n_groups, nobs, eps, df, alpha) ==
    LET res == EquivalenceOnewayGeneric(f, n_groups, nobs, eps, df, Alpha05,
                                        "wellek")
        nobs_mean == RDiv(NobsSum(nobs), R(n_groups))
        esn == RDiv(RMul(f, R(n_groups - 1)), nobs_mean)
        nc == RMul(nobs_mean, esn)
    IN  Return(NcfCdf(res.value.crit_f, df[1], df[2], nc),
               res.trace \o <<NcfCall("ncf.cdf", nc)>>)

(***************************************************************************)
(* power_equivalence_oneway.  n_groups and df are optional: None or        *)
(* Some(value).                                                            *)
(***************************************************************************)
DfMsg == "either df or n_groups has to be provided"
WellekGroupsMsg == "If margin_type is wellek, then n_groups has to be provided"

\* lines 618-619: an exact-zero alternative is replaced by the epsilon
F2AltNonzero(f2_alt) == IF RIsZero(f2_alt) THEN Eps ELSE f2_alt

F2Wellek_NotSquared(x, nobs_t, n_groups) ==
    RDiv(RMul(RDiv(nobs_t, R(n_groups)), x), nobs_t)

\* lines 629-631: a Wellek effect size on the f2 scale
F2Wellek(x, nobs_t, n_groups) ==
    RDiv(RMul(RDiv(nobs_t, R(n_groups)), RSq(x)), nobs_t)

\* lines 635-637
PowerAt(f2_null, f2_alt, nobs_t, df, alpha) ==
    LET nc_null == RMul(nobs_t, f2_null)
        nc_alt == RMul(nobs_t, f2_alt)
        crit_f_margin == NcfPpf(alpha, df[1], df[2], nc_null)
    IN  Return(NcfCdf(crit_f_margin, df[1], df[2], nc_alt),
               <<NcfCall("ncf.ppf", nc_null), NcfCall("ncf.cdf", nc_alt)>>)

\* power_equivalence_oneway deriving df from n_groups whenever n_groups is
\* given
PowerEquivalenceOneway_GroupsDf(f2_alt, equiv_margin, nobs_t, n_groups, df, alpha, margin_type) ==
    IF df = None /\ n_groups = None
    THEN Raise("ValueError", DfMsg, <<>>)
    ELSE LET df1 == IF n_groups # None
                    THEN <<R(n_groups[1] - 1), RSub(nobs_t, R(n_groups[1]))>>
                    ELSE df[1]
             alt == F2AltNonzero(f2_alt)
         IN  IF margin_type \in F2Names
             THEN PowerAt(equiv_margin, alt, nobs_t, df1, alpha)
             ELSE IF margin_type = "wellek"
             THEN IF n_groups = None
                  THEN Raise("ValueError", WellekGroupsMsg, <<>>)
                  ELSE PowerAt(F2Wellek(equiv_margin, nobs_t, n_groups[1]),
                               F2Wellek(alt, nobs_t, n_groups[1]),
                               nobs_t, df1, alpha)
             ELSE Raise("ValueError", MarginMsg, <<>>)

\* lines 607-637
PowerEquivalenceOneway(f2_alt, equiv_margin, nobs_t, n_groups, df, alpha, margin_type) ==
    IF df = None /\ n_groups = None
    THEN Raise("ValueError", DfMsg, <<>>)
    ELSE LET df1 == IF df = None
                    THEN <<R(n_groups[1] - 1), RSub(nobs_t, R(n_groups[1]))>>
                    ELSE df[1]
             alt == F2AltNonzero(f2_alt)
         IN  IF margin_type \in F2Names
             THEN PowerAt(equiv_margin, alt, nobs_t, df1, alpha)
             ELSE IF margin_type = "wellek"
             THEN IF n_groups = None
                  THEN Raise("ValueError", WellekGroupsMsg, <<>>)
                  ELSE PowerAt(F2Wellek(equiv_margin, nobs_t, n_groups[1]),
                               F2Wellek(alt, nobs_t, n_groups[1]),
                               nobs_t, df1, alpha)
             ELSE Raise("ValueError", MarginMsg, <<>>)

(***************************************************************************)
(* convert_effectsize_fsqu.  f2 and eta2 are optional (None or Some(x)),   *)
(* x a Python float, a numpy scalar or a numpy array.                      *)
(***************************************************************************)
\* line 194
F2ToEta2(f2) == NpDiv(One, NpAdd(One, NpDiv(One, f2)))

\* line 197
Eta2ToF2(eta2) == NpDiv(eta2, NpSub(One, eta2))

\* the same on a scalar or on every element of an array
F2ToEta2Elementwise(x) ==
    IF x.tag = "array" THEN Arr([i \in DOMAIN x.v |-> F2ToEta2(x.v[i])])
    ELSE [x EXCEPT !.v = F2ToEta2(x.v)]

Eta2ToF2Elementwise(x) ==
    IF x.tag = "array" THEN Arr([i \in DOMAIN x.v |-> Eta2ToF2(x.v[i])])
    ELSE [x EXCEPT !.v = Eta2ToF2(x.v)]

\* Python float division raises where numpy returns inf or nan
ZeroDivisionF2(x) ==
    x.tag = "pyfloat" /\ (RIsZero(x.v) \/ RIsZero(RAdd(One, RInv(x.v))))

ZeroDivisionEta2(x) == x.tag = "pyfloat" /\ RIsZero(RSub(One, x.v))

Holder(f2, eta2) == Return([f2 |-> f2, eta2 |-> eta2], <<>>)

\* lines 193-200
ConvertEffectsizeFsqu(f2, eta2) ==
    IF f2 # None
    THEN IF ZeroDivisionF2(f2[1])
         THEN Raise("ZeroDivisionError", "float division by zero", <<>>)
         ELSE Holder(f2[1], F2ToEta2Elementwise(f2[1]))
    ELSE IF eta2 # None
    THEN IF ZeroDivisionEta2(eta2[1])
         THEN Raise("ZeroDivisionError", "float division by zero", <<>>)
         ELSE Holder(Eta2ToF2Elementwise(eta2[1]), eta2[1])
    ELSE Holder(None, None)

(***************************************************************************)
(* scipy.special.ncfdtrinc(dfn, dfd, p, f): the noncentrality nc >= 0 at   *)
(* which the noncentral F cdf at f equals p, for the same distribution     *)
(* family as NcfCdf.  The cdf decreases in nc, so no root exists when the  *)
(* cdf at nc = 0 is already below p.  What the library returns then is     *)
(* not fixed by the caller: noroot is that value (nan, or the bound 0 of   *)
(* the search range).                                                      *)
(***************************************************************************)
NcfdtrincRoot(dfn, dfd, p, f) ==
    RSub(RDiv(RMul(f, RSub(One, p)), p), NcfScale(dfn, dfd, Zero))

Ncfdtrinc(dfn, dfd, p, f, noroot) ==
    IF RIsZero(f) \/ RLt(NcfdtrincRoot(dfn, dfd, p, f), Zero) THEN noroot
    ELSE NcfdtrincRoot(dfn, dfd, p, f)

(***************************************************************************)
(* confint_noncentrality                                                   *)
(***************************************************************************)
\* line 295
TwoSidedNames == {"two-sided", "2s", "ts"}

ConfintNoncentrality_UpperFirst(f_stat, df1, df2, alpha, alternative, noroot) ==
    IF alternative \in TwoSidedNames
    THEN LET alpha1s == RDiv(alpha, R(2))
         IN  Return(<<Ncfdtrinc(df1, df2, alpha1s, f_stat, noroot),
                      Ncfdtrinc(df1, df2, RSub(One, alpha1s), f_stat, noroot)>>,
                    <<[fn |-> "ncfdtrinc"]>>)
    ELSE Raise("NotImplementedError", "", <<>>)

\* lines 295-301
ConfintNoncentrality(f_stat, df1, df2, alpha, alternative, noroot) ==
    IF alternative \in TwoSidedNames
    THEN LET alpha1s == RDiv(alpha, R(2))
         IN  Return(<<Ncfdtrinc(df1, df2, RSub(One, alpha1s), f_stat, noroot),
                      Ncfdtrinc(df1, df2, alpha1s, f_stat, noroot)>>,
                    <<[fn |-> "ncfdtrinc"]>>)
    ELSE Raise("NotImplementedError", "", <<>>)

(***************************************************************************)
(* confint_effectsize_oneway.  nobs is optional.                           *)
(***************************************************************************)
\* lines 325-337: the alternative argument is not read; line 328 passes
\* "two-sided"
ConfintEffectsizeOneway(f_stat, df1, df2, alpha, nobs, alternative, noroot) ==
    LET nobs1 == IF nobs = None THEN RAdd(RAdd(df1, df2), One) ELSE nobs[1]
        ci == ConfintNoncentrality(f_stat, df1, df2, alpha, "two-sided",
                                   noroot)
        ci_nc == ci.value
        ci_f2 == Arr([i \in DOMAIN ci_nc |-> NpDiv(ci_nc[i], nobs1)])
        ci_res == ConvertEffectsizeFsqu(Some(ci_f2), None).value
        corr == RDiv(RAdd(df1, One), df1)
    IN  Return([f2 |-> ci_res.f2,
                eta2 |-> ci_res.eta2,
                ci_nc |-> ci_nc,
                ci_f |-> [i \in DOMAIN ci_nc |-> NpSqrt(ci_res.f2.v[i])],
                ci_eta |-> [i \in DOMAIN ci_nc |-> NpSqrt(ci_res.eta2.v[i])],
                ci_f_corrected |->
                    [i \in DOMAIN ci_nc |->
                        NpSqrt(NpMul(ci_res.f2.v[i], corr))]],
               ci.trace)

(***************************************************************************)
(* simulate_power_equivalence_oneway                                       *)
(***************************************************************************)
\* the element of a one-element set: binds an intermediate result to its
\* value
The(S) == CHOOSE v \in S : TRUE

\* The process-wide stream behind np.random.randn: its state is the
\* position in a fixed cyclic sequence of standard normal variates.
StreamValues == << 0, -1, 2, -2, 1, -1, 2, 0, 1, -1, 2, -2 >>

StreamPeriod == Len(StreamValues)

RandnAt(pos) == R(StreamValues[(pos % StreamPeriod) + 1])

\* np.random.seed(seed): the state depends on the seed alone
SeedState(seed) == seed % StreamPeriod

\* np.random.randn(n) as an entry of a trace
RandnCall(n) == [fn |-> "randn", n |-> n]

\* state of the stream after the primitive calls of a trace
RECURSIVE StreamAfter(_, _)
StreamAfter(pos, trace) ==
    IF trace = <<>> THEN pos
    ELSE StreamAfter(IF Head(trace).fn = "randn"
                     THEN (pos + Head(trace).n) % StreamPeriod
                     ELSE pos,
                     Tail(trace))

\* line 667: the trial's samples are unpacked into y0, y1, y2, y3
SimUnpack == 4

UnpackMsg == "wrong number of values to unpack (expected 4)"

\* lines 653-654
DefaultOptionsVar == <<"unequal", "equal", "bf">>

\* lines 655-658
SimStds(means, vars_) ==
    IF vars_ = None THEN [i \in DOMAIN means |-> One]
    ELSE [i \in DOMAIN vars_[1] |-> RSqrt(vars_[1][i])]

RECURSIVE SumInts(_)
SumInts(s) == IF s = <<>> THEN 0 ELSE Head(s) + SumInts(Tail(s))

MinOf(a, b) == IF a < b THEN a ELSE b

\* zip(nobs, means, stds) stops at the shortest of the three
ZipLen(means, stds, nobs) == MinOf(Len(nobs), MinOf(Len(means), Len(stds)))

\* np.random.randn(n) with the stream at position pos
RECURSIVE Randn(_, _)
Randn(pos, n) ==
    IF n = 0 THEN <<>>
    ELSE Append(Randn(pos, n - 1), RandnAt(pos + n - 1))

\* lines 667-668: one sample m + std * randn(n) per zipped group, the
\* groups drawing from the stream one after the other
RECURSIVE DrawSamples(_, _, _, _, _)
DrawSamples(means, stds, nobs, k, pos) ==
    IF k = 0 THEN <<>>
    ELSE Append(DrawSamples(means, stds, nobs, k - 1, pos),
                [ndim |-> 1,
                 x |-> (The({ [j \in 1..nobs[k] |->
                                  RAdd(means[k], RMul(stds[k], z[j]))]
                              : z \in {Randn(pos + SumInts(SubSeq(nobs, 1,
                                                               k - 1)),
                                             nobs[k])} })) \o <<>>])

DrawTrace(means, stds, nobs) ==
    [i \in 1..ZipLen(means, stds, nobs) |-> RandnCall(nobs[i])]

\* line 681: the total passed on is nobs.sum() of the nobs argument
SimNobsTotal(nobs, res0) == Scal(R(SumInts(nobs)))

\* lines 680-689: the equivalence test of one mode and its row entries
SimulateModeRow(res0, nobs, equiv_margin, margin_type) ==
    The({ IF res1.kind = "raise" THEN WithTrace(res0.trace, res1)
          ELSE Return([pvalue |-> res1.value.pvalue,
                       f_stat |-> RDiv(RMul(res0.value.statistic,
                                            R(Len(nobs) - 1)),
                                       Rat(SumInts(nobs), Len(nobs))),
                       reject |-> res1.value.reject,
                       other |-> <<res1.value.crit_f, res1.value.crit_es,
                                   res1.value.power_zero>>],
                      res0.trace \o res1.trace)
          : res1 \in {EquivalenceOnewayGeneric(res0.value.statistic,
                          Len(nobs), SimNobsTotal(nobs, res0.value),
                          equiv_margin, res0.value.df, Alpha05,
                          margin_type)} })

\* lines 678-689: one mode of one trial
SimulateMode(ys, uv, nobs, equiv_margin, trim_frac, margin_type) ==
    The({ IF res0.kind = "raise" THEN res0
          ELSE SimulateModeRow(res0, nobs, equiv_margin, margin_type)
          : res0 \in {AnovaOneway(ys, uv, TRUE, trim_frac)} })

EmptyRow == [pvalue |-> <<>>, f_stat |-> <<>>, reject |-> <<>>, other |-> <<>>]

\* the entries of a mode go behind those of the modes after it
AppendMode_Behind(m, rest) ==
    IF rest.kind = "raise" THEN WithTrace(m.trace, rest)
    ELSE Return([pvalue |-> rest.value.pvalue \o <<m.value.pvalue>>,
                 f_stat |-> rest.value.f_stat \o <<m.value.f_stat>>,
                 reject |-> rest.value.reject \o <<m.value.reject>>,
                 other |-> rest.value.other \o m.value.other],
                m.trace \o rest.trace)

\* lines 685-689: the entries of a mode go in front of those of the modes
\* after it
AppendMode(m, rest) ==
    IF rest.kind = "raise" THEN WithTrace(m.trace, rest)
    ELSE Return([pvalue |-> <<m.value.pvalue>> \o rest.value.pvalue,
                 f_stat |-> <<m.value.f_stat>> \o rest.value.f_stat,
                 reject |-> <<m.value.reject>> \o rest.value.reject,
                 other |-> m.value.other \o rest.value.other],
                m.trace \o rest.trace)

\* a mode that fails leaves a placeholder in its row
Placeholder(m) ==
    IF m.kind = "raise"
    THEN Return([pvalue |-> NaN, f_stat |-> NaN, reject |-> FALSE,
                 other |-> <<NaN, NaN, NaN>>], m.trace)
    ELSE m

\* the outcomes of the modes of one trial, each mode on the same samples
ModeOutcomes_Skip(ys, opts, nobs, equiv_margin, trim_frac, margin_type) ==
    [i \in 1..Len(opts) |->
        Placeholder(SimulateMode(ys, opts[i], nobs, equiv_margin, trim_frac,
                                 margin_type))] \o <<>>

\* lines 674-679: the outcomes of the modes of one trial, each mode on the
\* same samples
ModeOutcomes(ys, opts, nobs, equiv_margin, trim_frac, margin_type) ==
    [i \in 1..Len(opts) |->
        SimulateMode(ys, opts[i], nobs, equiv_margin, trim_frac,
                     margin_type)] \o <<>>

\* lines 674-689: the loop over options_var; the first exception leaves it
RECURSIVE CollectModes(_)
CollectModes(ms) ==
    IF ms = <<>> THEN Return(EmptyRow, <<>>)
    ELSE IF Head(ms).kind = "raise" THEN Head(ms)
    ELSE AppendMode(Head(ms), CollectModes(Tail(ms)))

\* lines 667-689: one trial
SimulateTrial(means, stds, nobs, equiv_margin, trim_frac, opts, margin_type, pos) ==
    IF ZipLen(means, stds, nobs) # SimUnpack
    THEN Raise("ValueError", UnpackMsg, DrawTrace(means, stds, nobs))
    ELSE The({ The({ WithTrace(DrawTrace(means, stds, nobs),
                               CollectModes(ms))
                     : ms \in {ModeOutcomes(ys, opts, nobs, equiv_margin,
                                            trim_frac, margin_type)} })
               : ys \in {DrawSamples(means, stds, nobs,
                                     ZipLen(means, stds, nobs), pos)} })

\* lines 690-693: the rows of a trial go in front of those of later trials
AppendTrial(t, rest) ==
    IF rest.kind = "raise" THEN WithTrace(t.trace, rest)
    ELSE Return(<<t.value>> \o rest.value, t.trace \o rest.trace)

\* line 666: the first exception leaves the loop over the trials
RECURSIVE CollectTrials(_)
CollectTrials(ts) ==
    IF ts = <<>> THEN Return(<<>>, <<>>)
    ELSE IF Head(ts).kind = "raise" THEN Head(ts)
    ELSE AppendTrial(Head(ts), CollectTrials(Tail(ts)))

\* position of the stream when trial t starts: each trial before it has
\* made the draws of line 667 and no other
TrialStart(means, stds, nobs, pos, t) ==
    (pos + (t - 1) * SumInts(SubSeq(nobs, 1, ZipLen(means, stds, nobs))))
        % StreamPeriod

\* lines 666-693: the trials in order, each starting where the one before
\* left the stream
SimulateTrials(means, stds, nobs, equiv_margin, k_mc, trim_frac, opts, margin_type, pos) ==
    The({ CollectTrials(ts)
          : ts \in {[t \in 1..k_mc |->
                        SimulateTrial(means, stds, nobs, equiv_margin,
                            trim_frac, opts, margin_type,
                            TrialStart(means, stds, nobs, pos, t))]
                    \o <<>>} })

\* lines 653-704
SimulatePowerEquivalenceOneway(means, nobs, equiv_margin, vars_, k_mc, trim_frac, options_var, margin_type, pos) ==
    The({ IF r.kind = "raise" THEN r
          ELSE Return([f_stat |-> [t \in DOMAIN r.value |-> r.value[t].f_stat],
                       other |-> [t \in DOMAIN r.value |-> r.value[t].other],
                       pvalue |-> [t \in DOMAIN r.value |-> r.value[t].pvalue],
                       reject |-> [t \in DOMAIN r.value |-> r.value[t].reject]],
                      r.trace)
          : r \in {SimulateTrials(means, SimStds(means, vars_), nobs,
                                  equiv_margin, k_mc, trim_frac,
                                  IF options_var = None
                                  THEN DefaultOptionsVar
                                  ELSE options_var[1],
                                  margin_type, pos)} })

(***************************************************************************)
(* test_scale_oneway and equivalence_scale_oneway                          *)
(***************************************************************************)
\* np.median of a one-dimensional sample
Median(x) ==
    LET srt == Sort(x)
        n == Len(x)
    IN  IF n % 2 = 1 THEN srt[(n + 1) \div 2]
        ELSE RDiv(RAdd(srt[n \div 2], srt[n \div 2 + 1]), R(2))

RAbs(a) == [n |-> Abs(a.n), d |-> a.d]

\* scale_transform: deviations from the center, absolute or squared
ScaleTransform(x, center, transform) ==
    LET c == IF center = "median" THEN Median(x) ELSE SampleMean(x)
    IN  [i \in DOMAIN x |->
            IF transform = "abs" THEN RAbs(RSub(x[i], c))
            ELSE RSq(RSub(x[i], c))] \o <<>>

\* lines 734-736, 758-760
TransformAll(data, center, transform) ==
    [i \in DOMAIN data |->
        [ndim |-> data[i].ndim,
         x |-> ScaleTransform(data[i].x, center, transform)]] \o <<>>

\* lines 707, 744: method defaults to "bfm"
DefaultMethod == "bfm"

MethodOf(method) == IF method = None THEN DefaultMethod ELSE method[1]

\* the result object with one more attribute set on it
WithAttr(o, name, v) ==
    IF o.kind = "raise" THEN o
    ELSE [o EXCEPT !.value = (name :> v) @@ o.value]

\* lines 734-741
TestScaleOneway(data, method, center, transform, trim_frac_anova) ==
    The({ WithAttr(AnovaOneway(xxd, MethodOf(method), TRUE, trim_frac_anova),
                   "data_transformed", xxd)
          : xxd \in {TransformAll(data, center, transform)} })

\* lines 758-765
EquivalenceScaleOneway(data, equiv_margin, method, center, transform, trim_frac_anova) ==
    The({ WithAttr(EquivalenceOneway(xxd, equiv_margin, MethodOf(method),
                                     TRUE, trim_frac_anova, "f2"),
                   "x_transformed", xxd)
          : xxd \in {TransformAll(data, center, transform)} })

(***************************************************************************)
(* _fstat2effectsize                                                       *)
(***************************************************************************)
\* lines 239-246
Fstat2Effectsize(f_stat, df1, df2) ==
    LET f2 == RDiv(RMul(f_stat, df1), df2)
    IN  Return([f2 |-> f2,
                eta2 |-> RDiv(f2, RAdd(f2, One)),
                omega2 |-> RDiv(RSub(f2, RDiv(df1, df2)), RAdd(f2, R(2))),
                eps2 |-> RDiv(RSub(f2, RDiv(df1, df2)), RAdd(f2, One)),
                eps2_ |-> RDiv(RSub(f_stat, One),
                               RAdd(f_stat, RDiv(df2, df1))),
                omega2_ |-> RDiv(RSub(f_stat, One),
                                 RAdd(f_stat, RDiv(RAdd(df2, One), df1)))],
               <<>>)

(***************************************************************************)
(* The caller: argument domains.                                           *)
(***************************************************************************)
MaxGroups == 3

\* use_var spellings tried: the three supported ones and others
UseVarVals == {"equal", "unequal", "bf", "BF", "Equal", "bfm", "welch"}
UseVarSupported == {"equal", "unequal", "bf"}

\* per-group summary statistics (mean, variance, number of observations)
GroupSummaries ==
    { [mean |-> R(0), var |-> R(1), nobs |-> R(2)],
      [mean |-> R(1), var |-> R(1), nobs |-> R(3)],
      [mean |-> R(2), var |-> R(2), nobs |-> R(3)],
      [mean |-> R(0), var |-> R(2), nobs |-> R(4)] }

DdofVals == {0, 1}

\* a scalar vars_: the pooled variance as a numpy float or a Python float
ScalarVars == << Scal(One), Scal(R(2)), PyScal(R(2)) >>

SummarySeqs == UNION { [1..k -> GroupSummaries] : k \in 2..MaxGroups }

RSeq(s) == [i \in DOMAIN s |-> R(s[i])]

\* raw samples: three one-dimensional arrays and one two-dimensional array
Samples ==
    { [ndim |-> 1, x |-> RSeq(<<4, 2, 3, 6, 5>>)],
      [ndim |-> 1, x |-> RSeq(<<0, 2, 1, 3, 2, 4>>)],
      [ndim |-> 1, x |-> RSeq(<<2, 4, 4, 2>>)],
      [ndim |-> 2, x |-> RSeq(<<1, 2, 3, 5>>)] }

DataSeqs == UNION { [1..k -> Samples] : k \in 2..MaxGroups }

TrimFracVals == { Zero, Rat(1, 5) }

\* margin_type spellings tried: the accepted ones and others
MarginTypeVals == {"f2", "fsqu", "fsquared", "wellek", "F2", "cohen"}

MarginVals == { Zero, Rat(1, 4), Rat(1, 2), One }
FStatVals == { Zero, Rat(1, 20), Rat(1, 2), R(2) }
NobsTotalVals == { R(9), R(12) }
AlphaVals == { Alpha05, Rat(1, 10) }
DfVals == { <<R(2), R(6)>>, <<R(3), Rat(5, 2)>> }

\* arguments of the calls that run the whole pipeline on raw samples
PipelineMargins == { Rat(1, 2) }
PipelineUseVars == {"equal", "unequal", "bf", "bfm"}
PipelineMarginTypes == {"f2", "wellek", "cohen"}

MeansOf(gs) == [i \in DOMAIN gs |-> gs[i].mean]
VarsOf(gs)  == [i \in DOMAIN gs |-> gs[i].var]
NobsOf(gs)  == [i \in DOMAIN gs |-> gs[i].nobs]

\* alternative spellings tried: the accepted ones and others
AlternativeVals == {"two-sided", "2s", "ts", "larger", "smaller", "Two-Sided"}

\* what ncfdtrinc returns when it finds no root
NoRootVals == { NaN, Zero }

ConfintFStatVals == { Zero, R(2), R(6), R(30) }
ConfintAlphaVals == { Rat(1, 2), Rat(1, 10) }
ConfintNobsVals == { None, Some(R(12)) }

\* f2 and eta2 arguments of convert_effectsize_fsqu
F2ArgVals == { Zero, Rat(1, 4), One, R(3) }
Eta2ArgVals == { Rat(1, 5), Rat(1, 2), Rat(3, 4) }
OptScalars(S) == {None} \cup {Some(Scal(x)) : x \in S} \cup {Some(PyScal(x)) : x \in S}

\* samples for the scale tests: their deviations from the center are not
\* all equal
ScaleSamples ==
    { [ndim |-> 1, x |-> RSeq(<<4, 2, 3, 6, 5>>)],
      [ndim |-> 1, x |-> RSeq(<<0, 2, 1, 3, 2, 4>>)],
      [ndim |-> 1, x |-> RSeq(<<1, 2, 4, 7>>)] }

ScaleDataSeqs == [1..2 -> ScaleSamples] \cup [1..3 -> ScaleSamples]
EquivalenceScaleDataSeqs == [1..2 -> ScaleSamples]

\* method left to its default, or given
MethodVals == {None} \cup {Some(m) : m \in PipelineUseVars}
CenterVals == {"median", "mean"}
TransformVals == {"abs"}

\* arguments of simulate_power_equivalence_oneway
MaxSimGroups == 5
MaxTrials == 2

SeedVals == {0, 5}
SimMeans(k) == [i \in 1..k |-> R(i % 2)]
SimNobs(k) == [i \in 1..k |-> 4]
SimVarsVals(k) == { None, Some([i \in 1..k |-> IF i = 1 THEN R(4) ELSE One]) }
SimOptionsVals == { None, Some(<<"bf", "unequal">>), Some(<<"equal", "bfm">>) }
SimTrimFracVals == { Zero, Rat(1, 4) }
SimMarginTypes == {"f2", "wellek", "cohen"}

SimArgs ==
    UNION { [means : {SimMeans(k)}, nobs : {SimNobs(k)},
             equiv_margin : PipelineMargins, vars_ : SimVarsVals(k),
             k_mc : 0..MaxTrials, trim_frac : SimTrimFracVals,
             options_var : SimOptionsVals, margin_type : SimMarginTypes]
            : k \in 2..MaxSimGroups }

NoCall == [fn |-> "none"]
NoOutcome == [kind |-> "none"]

\* no simulation has been run yet
NoPrev == [fn |-> "none"]

Init ==
    /\ pc = "idle"
    /\ call = NoCall
    /\ outcome = NoOutcome
    /\ rng = 0
    /\ seeded = None
    /\ prev = NoPrev

CallAnovaGeneric ==
    /\ pc = "idle"
    /\ \E gs \in SummarySeqs, uv \in UseVarVals, wc \in BOOLEAN :
          /\ call' = [fn |-> "anova_generic", means |-> MeansOf(gs),
                      vars_ |-> VarsOf(gs), nobs |-> NobsOf(gs),
                      use_var |-> uv, welch_correction |-> wc]
          /\ outcome' = AnovaGeneric(MeansOf(gs), VarsOf(gs), NobsOf(gs), uv, wc)
    /\ pc' = "done"
    /\ rng' = StreamAfter(rng, outcome'.trace)
    /\ UNCHANGED <<seeded, prev>>

CallEffectsizeOneway ==
    /\ pc = "idle"
    /\ \E gs \in SummarySeqs, uv \in UseVarVals, ddof \in DdofVals :
       \E c \in 0..Len(ScalarVars) :
          LET v == IF c = 0 THEN Arr(VarsOf(gs)) ELSE ScalarVars[c]
          IN  /\ call' = [fn |-> "effectsize_oneway", means |-> MeansOf(gs),
                          vars_ |-> v, nobs |-> NobsOf(gs),
                          use_var |-> uv, ddof_between |-> ddof]
              /\ outcome' = EffectsizeOneway(MeansOf(gs), v, NobsOf(gs), uv,
                                              ddof)
    /\ pc' = "done"
    /\ rng' = StreamAfter(rng, outcome'.trace)
    /\ UNCHANGED <<seeded, prev>>

CallAnovaOneway ==
    /\ pc = "idle"
    /\ \E data \in DataSeqs, uv \in PipelineUseVars, wc \in BOOLEAN,
          tf \in TrimFracVals :
          /\ call' = [fn |-> "anova_oneway", data |-> data, use_var |-> uv,
                      welch_correction |-> wc, trim_frac |-> tf]
          /\ outcome' = AnovaOneway(data, uv, wc, tf)
    /\ pc' = "done"
    /\ rng' = StreamAfter(rng, outcome'.trace)
    /\ UNCHANGED <<seeded, prev>>

CallEquivalenceOnewayGeneric ==
    /\ pc = "idle"
    /\ \E f \in FStatVals, k \in 1..MaxGroups, nt \in NobsTotalVals,
          m \in MarginVals, df \in DfVals, a \in AlphaVals,
          mt \in MarginTypeVals :
          /\ call' = [fn |-> "equivalence_oneway_generic", f_stat |-> f,
                      n_groups |-> k, nobs |-> Scal(nt), equiv_margin |-> m,
                      df |-> df, alpha |-> a, margin_type |-> mt]
          /\ outcome' = EquivalenceOnewayGeneric(f, k, Scal(nt), m, df, a, mt)
    /\ pc' = "done"
    /\ rng' = StreamAfter(rng, outcome'.trace)
    /\ UNCHANGED <<seeded, prev>>

CallEquivalenceOneway ==
    /\ pc = "idle"
    /\ \E data \in DataSeqs, m \in PipelineMargins,
          uv \in PipelineUseVars, tf \in TrimFracVals,
          mt \in PipelineMarginTypes :
          /\ call' = [fn |-> "equivalence_oneway", data |-> data,
                      equiv_margin |-> m, use_var |-> uv,
                      welch_correction |-> TRUE, trim_frac |-> tf,
                      margin_type |-> mt]
          /\ outcome' = EquivalenceOneway(data, m, uv, TRUE, tf, mt)
    /\ pc' = "done"
    /\ rng' = StreamAfter(rng, outcome'.trace)
    /\ UNCHANGED <<seeded, prev>>

CallPowerEquivalenceOneway ==
    /\ pc = "idle"
    /\ \E alt \in MarginVals, m \in MarginVals, nt \in NobsTotalVals,
          k \in {None} \cup {Some(j) : j \in 2..MaxGroups},
          df \in {None} \cup {Some(d) : d \in DfVals}, a \in AlphaVals,
          mt \in MarginTypeVals :
          /\ call' = [fn |-> "power_equivalence_oneway", f2_alt |-> alt,
                      equiv_margin |-> m, nobs_t |-> nt, n_groups |-> k,
                      df |-> df, alpha |-> a, margin_type |-> mt]
          /\ outcome' = PowerEquivalenceOneway(alt, m, nt, k, df, a, mt)
    /\ pc' = "done"
    /\ rng' = StreamAfter(rng, outcome'.trace)
    /\ UNCHANGED <<seeded, prev>>

CallPowerEquivalenceOneway0 ==
    /\ pc = "idle"
    /\ \E f \in FStatVals, k \in 1..MaxGroups, nt \in NobsTotalVals,
          m \in MarginVals, df \in DfVals, a \in AlphaVals :
          /\ call' = [fn |-> "power_equivalence_oneway0", f |-> f,
                      n_groups |-> k, nobs |-> Scal(nt), eps |-> m,
                      df |-> df, alpha |-> a]
          /\ outcome' = PowerEquivalenceOneway0(f, k, Scal(nt), m, df, a)
    /\ pc' = "done"
    /\ rng' = StreamAfter(rng, outcome'.trace)
    /\ UNCHANGED <<seeded, prev>>

CallConvertEffectsizeFsqu ==
    /\ pc = "idle"
    /\ \E f2 \in OptScalars(F2ArgVals), eta2 \in OptScalars(Eta2ArgVals) :
          /\ call' = [fn |-> "convert_effectsize_fsqu", f2 |-> f2,
                      eta2 |-> eta2]
          /\ outcome' = ConvertEffectsizeFsqu(f2, eta2)
    /\ pc' = "done"
    /\ rng' = StreamAfter(rng, outcome'.trace)
    /\ UNCHANGED <<seeded, prev>>

CallConfintNoncentrality ==
    /\ pc = "idle"
    /\ \E f \in ConfintFStatVals, df \in DfVals, a \in ConfintAlphaVals,
          alt \in AlternativeVals, noroot \in NoRootVals :
          /\ call' = [fn |-> "confint_noncentrality", f_stat |-> f,
                      df1 |-> df[1], df2 |-> df[2], alpha |-> a,
                      alternative |-> alt, noroot |-> noroot]
          /\ outcome' = ConfintNoncentrality(f, df[1], df[2], a, alt, noroot)
    /\ pc' = "done"
    /\ rng' = StreamAfter(rng, outcome'.trace)
    /\ UNCHANGED <<seeded, prev>>

CallConfintEffectsizeOneway ==
    /\ pc = "idle"
    /\ \E f \in ConfintFStatVals, df \in DfVals, a \in ConfintAlphaVals,
          nobs \in ConfintNobsVals, alt \in AlternativeVals,
          noroot \in NoRootVals :
          /\ call' = [fn |-> "confint_effectsize_oneway", f_stat |-> f,
                      df1 |-> df[1], df2 |-> df[2], alpha |-> a,
                      nobs |-> nobs, alternative |-> alt, noroot |-> noroot]
          /\ outcome' = ConfintEffectsizeOneway(f, df[1], df[2], a, nobs,
                                                 alt, noroot)
    /\ pc' = "done"
    /\ rng' = StreamAfter(rng, outcome'.trace)
    /\ UNCHANGED <<seeded, prev>>

\* the caller has consumed the outcome and is ready for the next call
CallTestScaleOneway ==
    /\ pc = "idle"
    /\ \E data \in ScaleDataSeqs, method \in MethodVals, c \in CenterVals,
          tr \in TransformVals :
          /\ call' = [fn |-> "test_scale_oneway", data |-> data,
                      method |-> method, center |-> c, transform |-> tr,
                      trim_frac_anova |-> Zero]
          /\ outcome' = TestScaleOneway(data, method, c, tr, Zero)
    /\ pc' = "done"
    /\ rng' = StreamAfter(rng, outcome'.trace)
    /\ UNCHANGED <<seeded, prev>>

CallEquivalenceScaleOneway ==
    /\ pc = "idle"
    /\ \E data \in EquivalenceScaleDataSeqs, m \in PipelineMargins,
          method \in MethodVals, c \in CenterVals, tr \in TransformVals :
          /\ call' = [fn |-> "equivalence_scale_oneway", data |-> data,
                      equiv_margin |-> m, method |-> method, center |-> c,
                      transform |-> tr, trim_frac_anova |-> Zero]
          /\ outcome' = EquivalenceScaleOneway(data, m, method, c, tr, Zero)
    /\ pc' = "done"
    /\ rng' = StreamAfter(rng, outcome'.trace)
    /\ UNCHANGED <<seeded, prev>>

CallFstat2Effectsize ==
    /\ pc = "idle"
    /\ \E f \in FStatVals, df \in DfVals :
          /\ call' = [fn |-> "_fstat2effectsize", f_stat |-> f,
                      df1 |-> df[1], df2 |-> df[2]]
          /\ outcome' = Fstat2Effectsize(f, df[1], df[2])
    /\ pc' = "done"
    /\ rng' = StreamAfter(rng, outcome'.trace)
    /\ UNCHANGED <<seeded, prev>>

\* the caller seeds the process-wide stream: np.random.seed(seed)
SeedStream ==
    /\ pc = "idle"
    /\ \E seed \in SeedVals :
          /\ rng' = SeedState(seed)
          /\ seeded' = Some(seed)
    /\ UNCHANGED <<pc, call, outcome, prev>>

\* The first simulation is run with any arguments; a later one repeats the
\* arguments of the first, right after the stream has been seeded.  The call
\* records the seed the stream was last set from, if no simulation has drawn
\* from it since.
CallSimulatePowerEquivalenceOneway ==
    /\ pc = "idle"
    /\ prev # NoPrev => seeded # None
    /\ \E a \in IF prev = NoPrev THEN SimArgs ELSE {prev.args} :
          /\ call' = [fn |-> "simulate_power_equivalence_oneway", args |-> a,
                      seed |-> seeded, start |-> rng]
          /\ outcome' = SimulatePowerEquivalenceOneway(a.means, a.nobs,
                            a.equiv_margin, a.vars_, a.k_mc, a.trim_frac,
                            a.options_var, a.margin_type, rng)
    /\ pc' = "done"
    /\ rng' = StreamAfter(rng, outcome'.trace)
    /\ seeded' = None
    /\ UNCHANGED prev

\* the caller has consumed the outcome and is ready for the next call; it
\* keeps the first simulation's call and outcome for comparison
Resume ==
    /\ pc = "done"
    /\ pc' = "idle"
    /\ call' = NoCall
    /\ outcome' = NoOutcome
    /\ prev' = IF call.fn = "simulate_power_equivalence_oneway"
                  /\ prev = NoPrev
               THEN [fn |-> call.fn, args |-> call.args, seed |-> call.seed,
                     start |-> call.start, outcome |-> outcome]
               ELSE prev
    /\ UNCHANGED <<rng, seeded>>

Next ==
    \/ CallAnovaGeneric
    \/ CallEffectsizeOneway
    \/ CallAnovaOneway
    \/ CallEquivalenceOnewayGeneric
    \/ CallEquivalenceOneway
    \/ CallPowerEquivalenceOneway
    \/ CallPowerEquivalenceOneway0
    \/ CallConvertEffectsizeFsqu
    \/ CallConfintNoncentrality
    \/ CallConfintEffectsizeOneway
    \/ CallFstat2Effectsize
    \/ Resume

Spec == Init /\ [][Next]_vars

\* the tests of scale, which run the pipeline on transformed samples
ScaleNext ==
    \/ CallTestScaleOneway
    \/ CallEquivalenceScaleOneway
    \/ Resume

ScaleSpec == Init /\ [][ScaleNext]_vars

\* a session around the simulation: seeding, other operations of the module
\* before the first simulation, and repeated simulations
SimNext ==
    \/ SeedStream
    \/ CallSimulatePowerEquivalenceOneway
    \/ (prev = NoPrev /\ CallEquivalenceOnewayGeneric)
    \/ (prev = NoPrev /\ CallPowerEquivalenceOneway0)
    \/ (prev = NoPrev /\ CallEquivalenceOneway)
    \/ (prev = NoPrev /\ CallConvertEffectsizeFsqu)
    \/ Resume

SimSpec == Init /\ [][SimNext]_vars

(***************************************************************************)
(* Properties                                                              *)
(***************************************************************************)
Done(fns) == pc = "done" /\ call.fn \in fns
Returned(fns) == Done(fns) /\ outcome.kind = "return"
AllOneDim(data) == \A i \in DOMAIN data : data[i].ndim = 1

\* C1: anova_generic, and anova_oneway on one-dimensional data, raise the
\* unsupported-mode ValueError for every use_var other than "equal",
\* "unequal" and "bf", and the outcome carries no result object.
C1_UnsupportedModeRaises ==
    (/\ Done({"anova_generic", "anova_oneway"})
     /\ call.use_var \notin UseVarSupported
     /\ (call.fn = "anova_oneway" => AllOneDim(call.data)))
    => /\ outcome.kind = "raise"
       /\ outcome.exc = "ValueError"
       /\ outcome.msg = UseVarMsg
       /\ "value" \notin DOMAIN outcome

C1_Witness ==
    /\ Done({"anova_oneway"})
    /\ call.use_var = "bfm"
    /\ AllOneDim(call.data)
    /\ outcome.kind = "raise"
    /\ outcome.msg = UseVarMsg

\* C2: effectsize_oneway raises an unsupported-mode error for every use_var
\* outside {"equal", "unequal", "bf"}, differently-cased spellings included,
\* instead of returning a number.
C2_EffectsizeUnsupportedModeRaises ==
    (Done({"effectsize_oneway"}) /\ call.use_var \notin UseVarSupported)
    => outcome.kind = "raise"

\* C3: anova_oneway raises the validation ValueError whenever some group's
\* sample is not one-dimensional, before any summary statistic or ANOVA
\* computation has run, and the outcome carries no result object.
C3_NdimValidatedFirst ==
    (Done({"anova_oneway"}) /\ ~AllOneDim(call.data))
    => /\ outcome.kind = "raise"
       /\ outcome.exc = "ValueError"
       /\ outcome.msg = NdimMsg
       /\ outcome.trace = <<>>
       /\ "value" \notin DOMAIN outcome

C3_Witness ==
    /\ Done({"anova_oneway"})
    /\ call.data[1].ndim = 1
    /\ call.data[2].ndim = 2
    /\ call.use_var = "unequal"
    /\ outcome.kind = "raise"
    /\ outcome.msg = NdimMsg

SecondaryFields == {"df2", "df_num2", "pvalue2"}

\* C4: a bf result carries the primary triple (df_num, df_denom, pvalue)
\* and the secondary triple (df_num2 = k-1, df2, pvalue2), each p-value
\* being f.sf of the same statistic at its own df pair; equal and unequal
\* results carry none of df2, df_num2, pvalue2.
C4_BfDualDf ==
    Returned({"anova_generic", "anova_oneway"})
    => LET v == outcome.value
       IN  IF v.use_var = "bf"
           THEN /\ SecondaryFields \subseteq DOMAIN v
                /\ v.df_num2 = R(v.n_groups - 1)
                /\ v.df2 = <<v.df_num2, v.df_denom>>
                /\ v.df = <<v.df_num, v.df_denom>>
                /\ v.pvalue = FSf(v.statistic, v.df[1], v.df[2])
                /\ v.pvalue2 = FSf(v.statistic, v.df2[1], v.df2[2])
                /\ (call.fn = "anova_generic"
                      => v.df_num = BfDfNum(call.vars_, call.nobs))
           ELSE SecondaryFields \cap DOMAIN v = {}

C4_Witness ==
    /\ Returned({"anova_generic"})
    /\ outcome.value.use_var = "bf"
    /\ outcome.value.df_num # outcome.value.df_num2
    /\ outcome.value.pvalue2 # outcome.value.pvalue

\* number of observations of a sample left after cutting floor(frac * n)
\* from each tail (n itself when frac = 0)
CountAfterTrim(x, frac) == Len(x) - 2 * ((frac.n * Len(x)) \div frac.d)

TotalAfterTrim(data, frac) ==
    SumSeq([i \in DOMAIN data |-> R(CountAfterTrim(data[i].x, frac))])

\* C5: in equal mode the ANOVA df pair is (k-1, nobs_total-k), and
\* equivalence_oneway / equivalence_oneway_generic report the df pair they
\* were given unchanged.
C5_EqualModeDf ==
    /\ (Returned({"anova_generic"}) /\ call.use_var = "equal")
       => LET k == Len(call.means)
          IN  /\ outcome.value.df = <<R(k - 1), RSub(SumSeq(call.nobs), R(k))>>
              /\ outcome.value.df_num = R(k - 1)
              /\ outcome.value.df_denom = RSub(SumSeq(call.nobs), R(k))
    /\ (Returned({"anova_oneway", "equivalence_oneway"})
          /\ call.use_var = "equal")
       => LET k == Len(call.data)
          IN  outcome.value.df =
                <<R(k - 1),
                  RSub(TotalAfterTrim(call.data, call.trim_frac), R(k))>>
    /\ Returned({"equivalence_oneway_generic"})
       => outcome.value.df = call.df

C5_Witness ==
    /\ Returned({"equivalence_oneway"})
    /\ call.use_var = "equal"
    /\ call.trim_frac = Zero
    /\ Len(call.data) = 3
    /\ outcome.value.df = <<R(2), R(12)>>

\* the summary statistics the claim C6 describes, per group
C6Means(data, frac) ==
    [i \in DOMAIN data |->
        IF RIsZero(frac) THEN SampleMean(data[i].x)
        ELSE MeanTrimmed(data[i].x, frac)]

C6Vars(data, frac) ==
    [i \in DOMAIN data |->
        IF RIsZero(frac) THEN SampleVar(data[i].x)
        ELSE RDiv(RMul(VarWinsorized(data[i].x, frac), R(Len(data[i].x) - 1)),
                  R(CountAfterTrim(data[i].x, frac) - 1))]

C6Nobs(data, frac) ==
    [i \in DOMAIN data |-> R(CountAfterTrim(data[i].x, frac))]

\* C6: with trim_frac > 0 anova_oneway hands the ANOVA engine the trimmed
\* counts n - 2*floor(trim_frac*n), the trimmed means and the winsorized
\* variances rescaled by (n-1)/(n_trimmed-1), so nobs_t and the result are
\* those of the trimmed counts, and equivalence_oneway derives its null
\* noncentrality from the trimmed nobs_t; with trim_frac = 0 the raw counts
\* and ddof=1 variances are used.
C6_TrimmedCountsDownstream ==
    /\ Returned({"anova_oneway"})
       => /\ outcome.value.nobs_t = TotalAfterTrim(call.data, call.trim_frac)
          /\ outcome.value =
               AnovaGeneric(C6Means(call.data, call.trim_frac),
                            C6Vars(call.data, call.trim_frac),
                            C6Nobs(call.data, call.trim_frac),
                            call.use_var, call.welch_correction).value
    /\ Returned({"equivalence_oneway"})
       => \E j \in DOMAIN outcome.trace :
             outcome.trace[j] =
                NcfCall("ncf.ppf",
                        NcNull(TotalAfterTrim(call.data, call.trim_frac),
                               Len(call.data), call.equiv_margin,
                               call.margin_type))

C6_Witness ==
    /\ Returned({"anova_oneway"})
    /\ ~RIsZero(call.trim_frac)
    /\ call.use_var = "unequal"
    /\ RLt(outcome.value.nobs_t, TotalAfterTrim(call.data, Zero))

MarginTypeFn == {"equivalence_oneway_generic", "power_equivalence_oneway"}

\* C7 (as claimed): equivalence_oneway_generic and power_equivalence_oneway
\* raise the invalid-margin-type error for every margin_type other than
\* "wellek" or "f2".
C7_OnlyWellekAndF2Accepted ==
    (Done(MarginTypeFn) /\ call.margin_type \notin {"wellek", "f2"})
    => /\ outcome.kind = "raise"
       /\ outcome.msg = MarginMsg

\* C7 (amended): "fsqu" and "fsquared" are accepted as spellings of "f2";
\* every margin_type other than "wellek", "f2", "fsqu", "fsquared" makes
\* both functions raise a ValueError and return no result: the
\* invalid-margin-type error, except that power_equivalence_oneway given
\* neither df nor n_groups raises its missing-df error first.
C7_MarginTypeRaises ==
    /\ (Done(MarginTypeFn)
          /\ call.margin_type \notin {"wellek", "f2", "fsqu", "fsquared"})
       => /\ outcome.kind = "raise"
          /\ outcome.exc = "ValueError"
          /\ "value" \notin DOMAIN outcome
          /\ \/ outcome.msg = MarginMsg
             \/ /\ call.fn = "power_equivalence_oneway"
                /\ call.df = None /\ call.n_groups = None
                /\ outcome.msg = DfMsg
    /\ (Done({"equivalence_oneway_generic"})
          /\ call.margin_type \in {"wellek", "f2", "fsqu", "fsquared"})
       => outcome.kind = "return"

C7_Witness ==
    /\ Done({"power_equivalence_oneway"})
    /\ call.margin_type = "cohen"
    /\ call.df # None
    /\ outcome.kind = "raise"
    /\ outcome.msg = MarginMsg

\* C8: reject is true exactly when effectsize < crit_es, and for
\* n_groups > 1 (nobs_total > 0) that is the same as f_stat < crit_f, under
\* both margin types.
C8_RejectIffBelowCritical ==
    (Returned({"equivalence_oneway_generic"}) /\ call.n_groups > 1)
    => LET v == outcome.value
       IN  /\ v.reject = RLt(v.effectsize, v.crit_es)
           /\ v.reject = RLt(call.f_stat, v.crit_f)

C8_Witness ==
    /\ Returned({"equivalence_oneway_generic"})
    /\ call.n_groups > 1
    /\ call.margin_type = "wellek"
    /\ outcome.value.reject
    /\ RLt(Zero, call.f_stat)

\* the equivalence test of a "wellek" call redone with margin_type "f2" and
\* the converted margin
C9EquivAsF2 ==
    EquivalenceOnewayGeneric(call.f_stat, call.n_groups, call.nobs,
        WellekToF2(call.equiv_margin, call.n_groups), call.df, call.alpha,
        "f2")

\* the power of a "wellek" call redone with margin_type "f2" and the
\* converted margin and alternative
C9PowerAsF2 ==
    PowerEquivalenceOneway(WellekToF2(call.f2_alt, call.n_groups[1]),
        WellekToF2(call.equiv_margin, call.n_groups[1]), call.nobs_t,
        call.n_groups, call.df, call.alpha, "f2")

C9EquivAgrees ==
    (Returned({"equivalence_oneway_generic"})
       /\ call.margin_type = "wellek" /\ call.n_groups >= 2)
    => LET v == outcome.value
           w == C9EquivAsF2.value
       IN  /\ outcome.trace = C9EquivAsF2.trace
           /\ v.crit_f = w.crit_f
           /\ v.pvalue = w.pvalue
           /\ v.reject = w.reject
           /\ v.power_zero = w.power_zero

C9Inverse ==
    (Done({"equivalence_oneway_generic"}) /\ call.n_groups >= 2)
    => LET eps == call.equiv_margin
           k == call.n_groups
       IN  /\ F2ToWellek(WellekToF2(eps, k), k) = eps
           /\ WellekToF2(F2ToWellek(WellekToF2(eps, k), k), k)
                = WellekToF2(eps, k)

\* C9 (as claimed): for n_groups >= 2 a "wellek" equivalence test or power
\* computation with margin eps gives the same null noncentrality, critical
\* F, p-value, decision and power as "f2" with margin wellek_to_f2(eps, k)
\* (the alternative converted likewise); the two conversions are inverse.
C9_WellekSameAsF2 ==
    /\ C9EquivAgrees
    /\ C9Inverse
    /\ (Returned({"power_equivalence_oneway"})
          /\ call.margin_type = "wellek" /\ call.n_groups # None)
       => outcome = C9PowerAsF2

\* C9 (amended): the same, with the power computations agreeing whenever
\* the alternative effect size is not exactly zero.
C9_WellekSameAsF2NonzeroAlt ==
    /\ C9EquivAgrees
    /\ C9Inverse
    /\ (Returned({"power_equivalence_oneway"})
          /\ call.margin_type = "wellek" /\ call.n_groups # None
          /\ ~RIsZero(call.f2_alt))
       => outcome = C9PowerAsF2

C9_Witness ==
    /\ Returned({"power_equivalence_oneway"})
    /\ call.margin_type = "wellek"
    /\ call.n_groups = Some(3)
    /\ call.f2_alt = Rat(1, 2)
    /\ call.equiv_margin = One
    /\ outcome = C9PowerAsF2
    /\ RLt(call.alpha, outcome.value)

\* C10: when the alternative effect size equals the
\* equivalence margin, power_equivalence_oneway returns exactly alpha.
C10_PowerAtMarginIsAlpha ==
    (Returned({"power_equivalence_oneway"})
       /\ call.f2_alt = call.equiv_margin)
    => outcome.value = call.alpha

NcfFns == {"ncf.ppf", "ncf.cdf"}

NcfCallers ==
    {"equivalence_oneway_generic", "power_equivalence_oneway",
     "power_equivalence_oneway0"}

\* C11: no call of the noncentral F primitive (ncf.ppf or ncf.cdf) made by
\* equivalence_oneway_generic, power_equivalence_oneway or
\* power_equivalence_oneway0 receives a noncentrality of exactly zero.
C11_NoZeroNoncentrality ==
    Done(NcfCallers)
    => \A j \in DOMAIN outcome.trace :
          outcome.trace[j].fn \in NcfFns => ~RIsZero(outcome.trace[j].nc)

\* the cdf level of the lower (i = 1) and of the upper (i = 2) bound
ConfintLevel(alpha, i) ==
    IF i = 1 THEN RSub(One, RDiv(alpha, R(2))) ELSE RDiv(alpha, R(2))

\* some noncentrality nc >= 0 has cdf level p at f_stat: the cdf decreases
\* in nc, so this is the case exactly when the cdf at nc = 0 is at least p
LevelAttained(p) ==
    RLe(p, NcfCdf(call.f_stat, call.df1, call.df2, Zero))

C13_EffectsizeTwoSidedOnly ==
    (Done({"confint_effectsize_oneway"})
       /\ call.alternative \notin TwoSidedNames)
    => /\ outcome.kind = "raise"
       /\ outcome.exc = "NotImplementedError"

\* C14: for f_stat >= 0, positive df and alpha in (0, 1),
\* confint_noncentrality returns numbers lower <= upper, both
\* non-negative, also when f_stat is so small that the cdf at
\* noncentrality 0 is below 1 - alpha/2.
C14_IntervalOrderedNonNegative ==
    Returned({"confint_noncentrality"})
    => /\ Finite(outcome.value[1])
       /\ Finite(outcome.value[2])
       /\ RLe(Zero, outcome.value[1])
       /\ RLe(outcome.value[1], outcome.value[2])

\* the noncentrality interval a confint call computed
ConfintInterval ==
    IF call.fn = "confint_noncentrality" THEN outcome.value
    ELSE outcome.value.ci_nc

\* C15: when ncfdtrinc finds no root and gives nan or an unbounded value
\* for a bound, confint_noncentrality and confint_effectsize_oneway raise
\* instead of returning the interval.
C15_NoRootSurfaces ==
    Returned({"confint_noncentrality", "confint_effectsize_oneway"})
    => \A i \in 1..2 : Finite(ConfintInterval[i])

\* C16: convert_effectsize_fsqu is a round trip: eta2 = x in (0, 1)
\* converted to f2 and back gives x, f2 = y > 0 converted to eta2 and back
\* gives y, and for every f2 >= 0, f2 = 0 included, the eta2 returned is
\* f2 / (1 + f2).
C16_F2Eta2RoundTrip ==
    Done({"convert_effectsize_fsqu"})
    => /\ (call.f2 = None /\ call.eta2 # None)
          => /\ outcome.kind = "return"
             /\ ConvertEffectsizeFsqu(Some(outcome.value.f2), None).value.eta2
                  = call.eta2[1]
       /\ (call.f2 # None)
          => /\ outcome.kind = "return"
             /\ outcome.value.eta2.v
                  = RDiv(call.f2[1].v, RAdd(One, call.f2[1].v))
             /\ ~RIsZero(call.f2[1].v)
                  => ConvertEffectsizeFsqu(None, Some(outcome.value.eta2))
                       .value.f2 = call.f2[1]

EqualVariances(v) == \A i, j \in DOMAIN v : v[i] = v[j]

\* the effect size of groups with the common variance v: the between sum
\* of squares around the nobs-weighted mean over v * (nobs_total - ddof)
HomoscedasticF2(means, v, nobs, ddof) ==
    LET nobs_t == SumSeq(nobs)
        m == RDiv(Dot(nobs, means), nobs_t)
    IN  RDiv(Dot(nobs, VSq(VSubS(means, m))),
             RMul(v, RSub(nobs_t, R(ddof))))

\* C17: with a per-group array of equal variances and ddof_between = 0,
\* effectsize_oneway returns the same effect size under "equal", "unequal"
\* and "bf", for all means and (unbalanced) nobs: the homoscedastic value.
C17_HomoscedasticModesAgree ==
    (Returned({"effectsize_oneway"})
       /\ call.use_var \in UseVarSupported
       /\ call.vars_.tag = "array" /\ EqualVariances(call.vars_.v)
       /\ call.ddof_between = 0)
    => outcome.value
         = HomoscedasticF2(call.means, call.vars_.v[1], call.nobs, 0)

C17_Witness ==
    /\ Returned({"effectsize_oneway"})
    /\ call.use_var = "bf"
    /\ call.vars_.tag = "array" /\ EqualVariances(call.vars_.v)
    /\ call.ddof_between = 0
    /\ Len(call.means) = 3
    /\ call.nobs[1] # call.nobs[2]
    /\ RLt(Zero, outcome.value)

\* C18: in every mode, bf included, the between sum of squares is divided
\* by nobs_total - ddof_between, so with equal variances the three modes
\* agree for every ddof_between, non-zero values included.
C18_DdofInEveryMode ==
    (Returned({"effectsize_oneway"})
       /\ call.use_var \in UseVarSupported
       /\ call.vars_.tag = "array" /\ EqualVariances(call.vars_.v))
    => outcome.value
         = HomoscedasticF2(call.means, call.vars_.v[1], call.nobs,
                           call.ddof_between)

\* C19: multiplying every entry of nobs by the same positive factor leaves
\* the effect size unchanged, in every mode, for per-group variances that
\* may differ (ddof_between = 0).
C19_RelativeNobsOnly ==
    (Returned({"effectsize_oneway"})
       /\ call.use_var \in UseVarSupported
       /\ call.vars_.tag = "array"
       /\ call.ddof_between = 0)
    => outcome = EffectsizeOneway(call.means, call.vars_,
                                  VScale(call.nobs, R(2)), call.use_var, 0)

\* C20: with a scalar vars_ the result is a finite number and the same
\* under "equal", "unequal" and "bf".
C20_ScalarVarsIgnoresUseVar ==
    (Done({"effectsize_oneway"})
       /\ call.use_var \in UseVarSupported
       /\ call.vars_.tag # "array")
    => /\ outcome.kind = "return"
       /\ Finite(outcome.value)
       /\ \A uv \in UseVarSupported :
             outcome = EffectsizeOneway(call.means, call.vars_, call.nobs,
                                        uv, call.ddof_between)


(***************************************************************************)
(* The Monte Carlo simulation                                              *)
(***************************************************************************)
SimFn == "simulate_power_equivalence_oneway"

SimOpts(a) ==
    IF a.options_var = None THEN DefaultOptionsVar
    ELSE a.options_var[1]

\* the samples trial t draws when the run starts with the stream at start
TrialSamples(a, start, t) ==
    DrawSamples(a.means, SimStds(a.means, a.vars_), a.nobs, Len(a.nobs),
                TrialStart(a.means, SimStds(a.means, a.vars_), a.nobs,
                           start, t))

\* every requested mode and the margin type are supported
SimArgsSupported(a) ==
    /\ \A i \in DOMAIN SimOpts(a) : SimOpts(a)[i] \in UseVarSupported
    /\ a.margin_type \in {"wellek"} \cup F2Names

\* the draws of a trace, in order
RandnDraws(trace) == SelectSeq(trace, LAMBDA e : e.fn = "randn")

\* a repeated run: the stream was seeded with the seed of the first run
SameSeedRerun ==
    /\ Done({SimFn})
    /\ prev # NoPrev
    /\ call.seed # None
    /\ call.seed = prev.seed
    /\ call.args = prev.args

\* C21: two runs of simulate_power_equivalence_oneway with the same
\* arguments, each started right after seeding the process-wide stream with
\* the same seed, have the same outcome (the same pvalue, reject, f_stat and
\* other arrays), whatever other operations of the module ran between the
\* seeding and the run; and no step of another operation changes the state
\* of the stream.
C21_MonteCarloDeterminism ==
    /\ [](SameSeedRerun => outcome = prev.outcome)
    /\ [][(pc' = "done" /\ call'.fn # SimFn) => rng' = rng]_vars

C21_Witness ==
    /\ SameSeedRerun
    /\ outcome.kind = "return"
    /\ call.args.k_mc >= 2
    /\ rng # call.start

\* C22: for every number of groups k >= 2 and supported modes and margin
\* type, the simulation returns a result and its draws are, trial after
\* trial, one randn(nobs_i) per group in group order.
C22_EveryGroupCountCompletes ==
    (/\ Done({SimFn})
     /\ Len(call.args.means) >= 2
     /\ SimArgsSupported(call.args))
    => (/\ outcome.kind = "return"
        /\ RandnDraws(outcome.trace)
             = [j \in 1..(call.args.k_mc * Len(call.args.nobs)) |->
                   RandnCall(call.args.nobs[((j - 1) % Len(call.args.nobs))
                                            + 1])])

\* C23: the result has one row per trial, in trial order, in pvalue, reject,
\* f_stat and other; a row of pvalue, reject and f_stat has one column per
\* mode in the order of options_var (by default unequal, equal, bf), and a
\* row of other has crit_f, crit_es, power_zero of each mode in that order.
C23_ArrayLayout ==
    Returned({SimFn}) =>
        LET a == call.args
            opts == SimOpts(a)
            v == outcome.value
        IN  /\ Len(v.pvalue) = a.k_mc
            /\ Len(v.reject) = a.k_mc
            /\ Len(v.f_stat) = a.k_mc
            /\ Len(v.other) = a.k_mc
            /\ \A t \in 1..a.k_mc :
                 /\ Len(v.pvalue[t]) = Len(opts)
                 /\ Len(v.reject[t]) = Len(opts)
                 /\ Len(v.f_stat[t]) = Len(opts)
                 /\ Len(v.other[t]) = 3 * Len(opts)
                 /\ \A i \in 1..Len(opts) :
                      LET res0 == AnovaOneway(TrialSamples(a, call.start, t),
                                      opts[i], TRUE, a.trim_frac)
                          res1 == EquivalenceOnewayGeneric(
                                      res0.value.statistic, Len(a.nobs),
                                      Scal(R(SumInts(a.nobs))),
                                      a.equiv_margin, res0.value.df, Alpha05,
                                      a.margin_type)
                      IN  /\ v.pvalue[t][i] = res1.value.pvalue
                          /\ v.reject[t][i] = res1.value.reject
                          /\ v.f_stat[t][i]
                               = RDiv(RMul(res0.value.statistic,
                                           R(Len(a.nobs) - 1)),
                                      Rat(SumInts(a.nobs), Len(a.nobs)))
                          /\ SubSeq(v.other[t], 3 * i - 2, 3 * i)
                               = <<res1.value.crit_f, res1.value.crit_es,
                                   res1.value.power_zero>>

C23_Witness ==
    /\ Returned({SimFn})
    /\ call.args.k_mc >= 2
    /\ call.args.options_var = Some(<<"bf", "unequal">>)
    /\ outcome.value.pvalue[1] # outcome.value.pvalue[2]
    /\ outcome.value.pvalue[1][1] # outcome.value.pvalue[1][2]

\* C24: for every trial and mode the recorded p-value and rejection flag
\* are those equivalence_oneway returns for the trial's samples with the
\* same use_var, trim_frac, equiv_margin and margin_type, for trim_frac > 0
\* too.
C24_SameAsEquivalenceOneway ==
    Returned({SimFn}) =>
        LET a == call.args
            opts == SimOpts(a)
            v == outcome.value
        IN  \A t \in 1..a.k_mc : \A i \in 1..Len(opts) :
                LET e == EquivalenceOneway(TrialSamples(a, call.start, t),
                             a.equiv_margin, opts[i], TRUE, a.trim_frac,
                             a.margin_type)
                IN  /\ e.kind = "return"
                    /\ v.pvalue[t][i] = e.value.pvalue
                    /\ v.reject[t][i] = e.value.reject

\* the pipeline of every trial and mode of a run: <<trial, mode index,
\* outcome of equivalence_oneway on the samples of the trial>>
SimPipelineRuns(a, start) ==
    { <<t, i, EquivalenceOneway(TrialSamples(a, start, t), a.equiv_margin,
                                SimOpts(a)[i], TRUE, a.trim_frac,
                                a.margin_type)>> :
        t \in 1..a.k_mc, i \in DOMAIN SimOpts(a) }

ScaleFns == {"test_scale_oneway", "equivalence_scale_oneway"}

\* C26: test_scale_oneway and equivalence_scale_oneway called without a
\* method, or with their documented method "bfm", return a result, and the
\* statistic of test_scale_oneway is that of the Brown-Forsythe ANOVA of the
\* transformed data.
C26_DefaultMethodAccepted ==
    (Done(ScaleFns) /\ call.method \in {None, Some("bfm")})
    => (/\ outcome.kind = "return"
        /\ call.fn = "test_scale_oneway"
           => outcome.value.statistic
                = AnovaOneway(TransformAll(call.data, call.center,
                                           call.transform),
                              "bf", TRUE, call.trim_frac_anova
                             ).value.statistic)

(***************************************************************************)
(* Rejection flag and p-value                                              *)
(***************************************************************************)
\* the flag of a returned equivalence test agrees with its p-value at alpha
RejectAgrees(v, alpha) == v.reject <=> RLt(v.pvalue, alpha)

\* power_equivalence_oneway0 does not depend on the alpha it is given, and
\* every mode of every trial of the simulation is tested at 0.05
FixedAlphaCallers ==
    /\ Done({"power_equivalence_oneway0"})
       => \A a \in AlphaVals :
             outcome = PowerEquivalenceOneway0(call.f, call.n_groups,
                           call.nobs, call.eps, call.df, a)
    /\ Returned({SimFn})
       => \A t \in DOMAIN outcome.value.pvalue :
             \A i \in DOMAIN outcome.value.pvalue[t] :
                outcome.value.reject[t][i]
                  <=> RLt(outcome.value.pvalue[t][i], Alpha05)

\* C27 as stated: for every number of groups, reject is true exactly when
\* pvalue < alpha, with alpha the argument of equivalence_oneway_generic and
\* 0.05 in equivalence_oneway, power_equivalence_oneway0 and the simulation.
C27_RejectIffPvalueBelowAlpha ==
    /\ Returned({"equivalence_oneway_generic"})
       => RejectAgrees(outcome.value, call.alpha)
    /\ Returned({"equivalence_oneway"})
       => RejectAgrees(outcome.value, Alpha05)
    /\ FixedAlphaCallers

\* C27, amended: the same, except for a Wellek margin with a single group
\* (where both sides of the comparison of effect sizes are zero).
C27_RejectIffPvalueBelowAlpha_Groups ==
    /\ (/\ Returned({"equivalence_oneway_generic"})
        /\ (call.n_groups >= 2 \/ call.margin_type # "wellek"))
       => RejectAgrees(outcome.value, call.alpha)
    /\ (/\ Returned({"equivalence_oneway"})
        /\ (Len(call.data) >= 2 \/ call.margin_type # "wellek"))
       => RejectAgrees(outcome.value, Alpha05)
    /\ FixedAlphaCallers

\* a test that rejects at alpha = 0.1 with a p-value that is not below 0.05
C27_Witness ==
    /\ Returned({"equivalence_oneway_generic"})
    /\ call.n_groups >= 2
    /\ call.alpha = Rat(1, 10)
    /\ outcome.value.reject
    /\ ~RLt(outcome.value.pvalue, Alpha05)

(***************************************************************************)
(* welch_correction                                                        *)
(***************************************************************************)
\* the outcome of the call with welch_correction negated
OtherWelch ==
    IF call.fn = "anova_generic"
    THEN AnovaGeneric(call.means, call.vars_, call.nobs, call.use_var,
                      ~call.welch_correction)
    ELSE AnovaOneway(call.data, call.use_var, ~call.welch_correction,
                     call.trim_frac)

\* the computed attributes of a result: all but the echoed argument
Computed(v) == [f \in DOMAIN v \ {"welch_correction"} |-> v[f]]

\* C28: df_num and df_denom are the same with and without
\* welch_correction; in equal and bf mode every computed attribute of the
\* result is the same; in unequal mode the corrected statistic is the
\* uncorrected one divided by 1 + 2(k-2)*tmp (tmp = 1/(3 df_denom)), hence
\* not larger, and equal to it for k = 2.
C28_WelchCorrection ==
    Returned({"anova_generic", "anova_oneway"}) =>
        LET o == OtherWelch
            c == IF call.welch_correction THEN outcome.value ELSE o.value
            u == IF call.welch_correction THEN o.value ELSE outcome.value
            k == outcome.value.n_groups
            tmp == RInv(RMul(R(3), u.df_denom))
        IN  /\ o.kind = "return"
            /\ c.df_num = u.df_num
            /\ c.df_denom = u.df_denom
            /\ c.df = u.df
            /\ call.use_var \in {"equal", "bf"}
               => Computed(c) = Computed(u)
            /\ call.use_var = "unequal"
               => /\ c.statistic
                       = RDiv(u.statistic,
                              RAdd(One, RMul(R(2 * (k - 2)), tmp)))
                  /\ RLe(c.statistic, u.statistic)
                  /\ k = 2 => c.statistic = u.statistic

\* a corrected unequal-variance statistic strictly below the uncorrected one
C28_Witness ==
    /\ Returned({"anova_generic"})
    /\ call.use_var = "unequal"
    /\ call.welch_correction
    /\ outcome.value.n_groups = 3
    /\ RLt(outcome.value.statistic, OtherWelch.value.statistic)

(***************************************************************************)
(* _fstat2effectsize                                                       *)
(***************************************************************************)
\* C29: for positive df1 and df2, f2 = f_stat*df1/df2, eta2 = f2/(f2+1),
\* eps2 = eps2_ = (f_stat-1)/(f_stat + df2/df1) and
\* omega2 = omega2_ = (f_stat-1)/(f_stat + (df2+1)/df1).
C29_RewritesAgree ==
    (Returned({"_fstat2effectsize"}) /\ RLt(Zero, call.df1)
                                     /\ RLt(Zero, call.df2))
    => LET v == outcome.value
           f == call.f_stat
       IN  /\ v.f2 = RDiv(RMul(f, call.df1), call.df2)
           /\ v.eta2 = RDiv(v.f2, RAdd(v.f2, One))
           /\ v.eps2_ = RDiv(RSub(f, One), RAdd(f, RDiv(call.df2, call.df1)))
           /\ v.eps2 = v.eps2_
           /\ v.omega2_ = RDiv(RSub(f, One),
                               RAdd(f, RDiv(RAdd(call.df2, One), call.df1)))
           /\ v.omega2 = v.omega2_

(***************************************************************************)
(* power_equivalence_oneway: validation                                    *)
(***************************************************************************)
\* the df the call has to use
PowerDf ==
    IF call.df = None
    THEN <<R(call.n_groups[1] - 1), RSub(call.nobs_t, R(call.n_groups[1]))>>
    ELSE call.df[1]

\* the margin and the alternative on the f2 scale
PowerF2(x) ==
    IF call.margin_type = "wellek"
    THEN RDiv(RMul(RDiv(call.nobs_t, R(call.n_groups[1])), RSq(x)),
              call.nobs_t)
    ELSE x

\* C30: power_equivalence_oneway raises a ValueError when neither df nor
\* n_groups is given, and when margin_type is "wellek" and n_groups is
\* missing although df is given; it raises before any distribution call;
\* and the power it returns is computed with df = (n_groups-1,
\* nobs_t-n_groups) when df is omitted and with the supplied df otherwise.
C30_PowerValidation ==
    Done({"power_equivalence_oneway"}) =>
        /\ (call.df = None /\ call.n_groups = None)
           => (/\ outcome.kind = "raise"
               /\ outcome.exc = "ValueError"
               /\ outcome.msg = DfMsg)
        /\ (call.df # None /\ call.n_groups = None
            /\ call.margin_type = "wellek")
           => (/\ outcome.kind = "raise"
               /\ outcome.exc = "ValueError"
               /\ outcome.msg = WellekGroupsMsg)
        /\ outcome.kind = "raise" => outcome.trace = <<>>
        /\ outcome.kind = "return"
           => outcome.value
                = NcfCdf(NcfPpf(call.alpha, PowerDf[1], PowerDf[2],
                                RMul(call.nobs_t,
                                     PowerF2(call.equiv_margin))),
                         PowerDf[1], PowerDf[2],
                         RMul(call.nobs_t,
                              PowerF2(F2AltNonzero(call.f2_alt))))

\* both df and n_groups given, and the two would give different powers
C30_Witness ==
    /\ Returned({"power_equivalence_oneway"})
    /\ call.df # None
    /\ call.n_groups # None
    /\ call.df[1] # <<R(call.n_groups[1] - 1),
                      RSub(call.nobs_t, R(call.n_groups[1]))>>
    /\ outcome.value
         # PowerEquivalenceOneway(call.f2_alt, call.equiv_margin,
               call.nobs_t, call.n_groups, None, call.alpha,
               call.margin_type).value

=============================================================================
